---- MODULE Spec2Model ----
(***************************************************************************)
(* A model of the statistical comparison engine of quant-survey:           *)
(*   - survey/utils/processing.py        get_group_pairs, match_all         *)
(*   - survey/utils/data_frames.py       count_coincidences                 *)
(*   - survey/utils/probability/prob_utils.py  create_cpt/jpt/jct           *)
(*   - survey/mixins/data_types/single_category_significance_mixin.py      *)
(*   - survey/experiments/_abstract/mixins.py  calculate, run, results_data *)
(*   - survey/surveys/survey.py          count_responses                    *)
(*   - survey/utils/analysis.py          prune_results                      *)
(*   - survey/experiments/_abstract/experiment.py  result                   *)
(*   - survey/groups/question_groups/likert_question_group.py  __setitem__  *)
(* Each function is a small state machine over its own variables; the      *)
(* specifications SpecGP, SpecCC, SpecCCNames, SpecCCFrames, SpecSig,      *)
(* SpecExp, SpecSession, SpecLookup, SpecBeliefs, SpecPrune,               *)
(* SpecPruneTwice and SpecGroup run one group of them each.                *)
(***************************************************************************)
EXTENDS Integers, Sequences, FiniteSets, TLC

VARIABLES
    \* get_group_pairs
    items, ordered, include_empty, i_start, i_end, i, pairs, gp_pc,
    \* count_coincidences and the table builders
    data_1, data_2, column_1, column_2, column_1_order, column_2_order,
    cc_op, cc_result,
    \* significance_one_vs_all, significance_one_vs_any, significance_one_vs_one
    categories, data, category_index, results, sig_pc, sig_return,
    \* SingleToSingleExperimentMixin: the survey, the two variables, run()
    \* and results_data()
    survey_data, independent, dependent, exp_results, iterator, iter_index,
    exp_pc, report,
    \* run() called again, and Experiment.result()
    runs, lookup,
    \* a question group: its class, _item_dict, _questions, its dynamic
    \* attributes, and the __setitem__ calls made on it
    group_class, item_dict, questions, attrs, set_calls, set_raised,
    \* prune_results
    pr_results, pr_sorted, ix_drop, pr_index, pr_pc, pr_return, pr_first

gp_vars == <<items, ordered, include_empty, i_start, i_end, i, pairs, gp_pc>>

cc_vars == <<data_1, data_2, column_1, column_2, column_1_order, column_2_order,
             cc_op, cc_result>>

sig_vars == <<categories, data, category_index, results, sig_pc, sig_return>>

run_vars == <<survey_data, independent, dependent, exp_results, iterator,
              iter_index, exp_pc, report>>

prune_vars == <<pr_results, pr_sorted, ix_drop, pr_index, pr_pc, pr_return,
                pr_first>>

group_vars == <<group_class, item_dict, questions, attrs, set_calls, set_raised>>

use_vars == <<runs, lookup, group_vars>>

exp_vars == <<run_vars, prune_vars, use_vars>>

vars == <<gp_vars, cc_vars, sig_vars, exp_vars>>

\* the value of the variables of a function that is not running
Idle == "idle"

GPIdle ==
    /\ items = Idle /\ ordered = Idle /\ include_empty = Idle /\ i_start = Idle
    /\ i_end = Idle /\ i = Idle /\ pairs = Idle /\ gp_pc = Idle

CCIdle ==
    /\ data_1 = Idle /\ data_2 = Idle /\ column_1 = Idle /\ column_2 = Idle
    /\ column_1_order = Idle
    /\ column_2_order = Idle /\ cc_op = Idle /\ cc_result = Idle

SigIdle ==
    /\ categories = Idle /\ data = Idle /\ category_index = Idle
    /\ results = Idle /\ sig_pc = Idle /\ sig_return = Idle

RunIdle ==
    /\ survey_data = Idle /\ independent = Idle /\ dependent = Idle
    /\ exp_results = Idle /\ iterator = Idle /\ iter_index = Idle
    /\ exp_pc = Idle /\ report = Idle

PruneIdle ==
    /\ pr_results = Idle /\ pr_sorted = Idle /\ ix_drop = Idle /\ pr_index = Idle
    /\ pr_pc = Idle /\ pr_return = Idle /\ pr_first = Idle

GroupIdle ==
    /\ group_class = Idle /\ item_dict = Idle /\ questions = Idle /\ attrs = Idle
    /\ set_calls = Idle /\ set_raised = Idle

UseIdle == runs = Idle /\ lookup = Idle /\ GroupIdle

ExpIdle == RunIdle /\ PruneIdle /\ UseIdle

(***************************************************************************)
(* Bounds and value universes                                              *)
(***************************************************************************)
\* longest list of labels handed to get_group_pairs
MaxItems == 4

\* the labels a category list is drawn from
Labels == {"a", "b", "c", "d", "e"}

Min(a, b) == IF a <= b THEN a ELSE b
Max(a, b) == IF a >= b THEN a ELSE b

RECURSIVE Pow2(_)
Pow2(n) == IF n <= 0 THEN 1 ELSE 2 * Pow2(n - 1)

RECURSIVE SumOver(_, _)
SumOver(S, f) ==
    IF S = {} THEN 0
    ELSE LET x == CHOOSE y \in S : TRUE IN f[x] + SumOver(S \ {x}, f)

\* the set of the elements of a sequence
Range(s) == {s[k] : k \in 1..Len(s)}

\* lists of distinct labels of length 0..n
DistinctSeqs(S, n) ==
    UNION {{s \in [1..k -> S] : \A a, b \in 1..k : a # b => s[a] # s[b]} : k \in 0..n}

(***************************************************************************)
(* Python string helpers used by get_group_pairs                           *)
(***************************************************************************)
\* f'{i:b}': the binary digits of i, most significant first; '0' for 0
RECURSIVE FormatBin(_)
FormatBin(n) == IF n < 2 THEN <<n>> ELSE Append(FormatBin(n \div 2), n % 2)

\* str.zfill(width): pad with zeros on the left, never truncate
ZFill(s, width) ==
    IF Len(s) >= width THEN s ELSE [k \in 1..(width - Len(s)) |-> 0] \o s

\* str.count(c)
Count(s, c) == Cardinality({k \in 1..Len(s) : s[k] = c})

\* s[:n] with Python's slice rules (negative n counts from the end)
SliceTo(s, n) ==
    IF n >= 0 THEN SubSeq(s, 1, Min(n, Len(s)))
    ELSE SubSeq(s, 1, Max(Len(s) + n, 0))

(***************************************************************************)
(* get_group_pairs                                                         *)
(***************************************************************************)
\* the members of its whose zipped group index equals g, in item order
RECURSIVE GroupOf(_, _, _, _)
GroupOf(bin_str, its, g, k) ==
    IF k > Min(Len(bin_str), Len(its)) THEN <<>>
    ELSE IF bin_str[k] = g THEN <<its[k]>> \o GroupOf(bin_str, its, g, k + 1)
    ELSE GroupOf(bin_str, its, g, k + 1)

\* a mutant of get_groups: the two groups swapped
get_groups_swapped(bin_str, its) ==
    <<GroupOf(bin_str, its, 1, 1), GroupOf(bin_str, its, 0, 1)>>

\* _get_groups: index 0 goes to group_0, anything else to group_1
get_groups(bin_str, its) ==
    <<GroupOf(bin_str, its, 0, 1), GroupOf(bin_str, its, 1, 1)>>

IStart(num_items, incl) == IF incl THEN 0 ELSE 1

\* a mutant of IEnd: the all-one pattern is always enumerated
IEndInclusive(num_items, incl) == Pow2(num_items)

IEnd(num_items, incl) == IF incl THEN Pow2(num_items) ELSE Pow2(num_items) - 1

\* a mutant of IsOrderedPattern: only the zeros-first orientation is kept
IsOrderedPatternZerosOnly(bin_string, num_items) ==
    LET num_zeros == Count(bin_string, 0)
        zeros_left == Count(SliceTo(bin_string, num_zeros), 0)
    IN  zeros_left > 0 /\ zeros_left = num_zeros

\* the filter of the ordered branch
IsOrderedPattern(bin_string, num_items) ==
    LET num_zeros == Count(bin_string, 0)
        num_ones == num_items - num_zeros
        zeros_left == Count(SliceTo(bin_string, num_zeros), 0)
        ones_left == Count(SliceTo(bin_string, num_ones), 1)
    IN  \/ (zeros_left > 0 /\ zeros_left = num_zeros)
        \/ (ones_left > 0 /\ ones_left = num_ones)

GPInit ==
    /\ items \in DistinctSeqs(Labels, MaxItems)
    /\ ordered \in BOOLEAN
    /\ include_empty \in BOOLEAN
    /\ i_start = 0
    /\ i_end = 0
    /\ i = 0
    /\ pairs = <<>>
    /\ gp_pc = "start"
    /\ CCIdle
    /\ SigIdle
    /\ ExpIdle

SetBounds ==
    /\ gp_pc = "start"
    /\ i_start' = IStart(Len(items), include_empty)
    /\ i_end' = IEnd(Len(items), include_empty)
    /\ i' = IStart(Len(items), include_empty)
    /\ gp_pc' = "loop"
    /\ UNCHANGED <<items, ordered, include_empty, pairs, cc_vars, sig_vars, exp_vars>>

OrderedStep ==
    /\ gp_pc = "loop"
    /\ ordered
    /\ i < i_end
    /\ LET bin_string == ZFill(FormatBin(i), Len(items))
       IN  pairs' = IF IsOrderedPattern(bin_string, Len(items))
                    THEN Append(pairs, get_groups(bin_string, items))
                    ELSE pairs
    /\ i' = i + 1
    /\ UNCHANGED <<items, ordered, include_empty, i_start, i_end, gp_pc, cc_vars, sig_vars, exp_vars>>

UnorderedStep ==
    /\ gp_pc = "loop"
    /\ ~ordered
    /\ i < i_end
    /\ LET bin_string == ZFill(FormatBin(i), Len(items))
       IN  pairs' = Append(pairs, get_groups(bin_string, items))
    /\ i' = i + 1
    /\ UNCHANGED <<items, ordered, include_empty, i_start, i_end, gp_pc, cc_vars, sig_vars, exp_vars>>

ReturnPairs ==
    /\ gp_pc = "loop"
    /\ i >= i_end
    /\ gp_pc' = "done"
    /\ UNCHANGED <<items, ordered, include_empty, i_start, i_end, i, pairs, cc_vars, sig_vars, exp_vars>>

GPNext == SetBounds \/ OrderedStep \/ UnorderedStep \/ ReturnPairs

SpecGP == GPInit /\ [][GPNext]_vars

(***************************************************************************)
(* Claims about get_group_pairs                                            *)
(***************************************************************************)
GPDone == gp_pc = "done"

\* both groups non-empty, no shared label, every label of items exactly once
IsFullSplit(pair) ==
    /\ Len(pair[1]) > 0
    /\ Len(pair[2]) > 0
    /\ Range(pair[1]) \cap Range(pair[2]) = {}
    /\ Range(pair[1]) \cup Range(pair[2]) = Range(items)
    /\ Len(pair[1]) + Len(pair[2]) = Len(items)
    /\ Cardinality(Range(pair[1])) = Len(pair[1])
    /\ Cardinality(Range(pair[2])) = Len(pair[2])

\* C1 as stated: for any list of N distinct labels, the unordered enumeration
\* without empty groups returns exactly 2^N - 2 pairs, each a full split of
\* the labels into two non-empty disjoint groups.
C1_AnyN ==
    (GPDone /\ ~ordered /\ ~include_empty) =>
        /\ Len(pairs) = Pow2(Len(items)) - 2
        /\ \A k \in 1..Len(pairs) : IsFullSplit(pairs[k])

\* C1 (amended): for any list of N >= 1 distinct labels, the unordered
\* enumeration without empty groups returns exactly 2^N - 2 pairs, and in
\* every pair both groups are non-empty, share no label and together hold
\* every label exactly once. (For N = 0 it returns no pair, not 2^0 - 2.)
C1_PartitionCompleteness ==
    (GPDone /\ ~ordered /\ ~include_empty /\ Len(items) >= 1) =>
        /\ Len(pairs) = Pow2(Len(items)) - 2
        /\ \A k \in 1..Len(pairs) : IsFullSplit(pairs[k])

C1_Witness ==
    /\ GPDone /\ ~ordered /\ ~include_empty
    /\ Len(items) = 4
    /\ Len(pairs) = 14

\* the threshold cuts of items, in both orientations
ThresholdCuts ==
    UNION {{<<SubSeq(items, 1, c), SubSeq(items, c + 1, Len(items))>>,
            <<SubSeq(items, c + 1, Len(items)), SubSeq(items, 1, c)>>}
           : c \in 1..(Len(items) - 1)}

\* C2: for N >= 2 distinct labels the ordered enumeration without empty
\* groups returns exactly 2(N-1) pairs, and a pair is returned iff one group
\* is a non-empty proper prefix of items and the other the complementary
\* suffix.
C2_OrderedThresholdCuts ==
    (GPDone /\ ordered /\ ~include_empty /\ Len(items) >= 2) =>
        /\ Len(pairs) = 2 * (Len(items) - 1)
        /\ Range(pairs) = ThresholdCuts

C2_Witness ==
    /\ GPDone /\ ordered /\ ~include_empty
    /\ Len(items) = 4
    /\ Len(pairs) = 6
    /\ <<SubSeq(items, 3, 4), SubSeq(items, 1, 2)>> \in Range(pairs)

\* position of a label in items (labels are distinct)
PosIn(its, x) == CHOOSE k \in 1..Len(its) : its[k] = x

\* a group lists its labels in the order they have in items
KeepsItemOrder(g) ==
    \A a, b \in 1..Len(g) : a < b => PosIn(items, g[a]) < PosIn(items, g[b])

\* the pair splits items into two groups, each in item order
IsOrderPreservingSplit(pair) ==
    /\ Range(pair[1]) \cap Range(pair[2]) = {}
    /\ Range(pair[1]) \cup Range(pair[2]) = Range(items)
    /\ Len(pair[1]) + Len(pair[2]) = Len(items)
    /\ KeepsItemOrder(pair[1])
    /\ KeepsItemOrder(pair[2])

\* the number whose bits, first label most significant, are 1 for the labels
\* of the second group
PatternValue(pair) ==
    SumOver(1..Len(items),
            [k \in 1..Len(items) |->
                IF items[k] \in Range(pair[2]) THEN Pow2(Len(items) - k) ELSE 0])

\* zeros then ones, or ones then zeros: a single cut point
IsThresholdPattern(p, n) ==
    \E c \in 0..n : p = Pow2(n - c) - 1 \/ p = Pow2(n) - Pow2(n - c)

\* the patterns the claim says are enumerated
Admissible(n, ord, incl) ==
    {p \in (IF incl THEN 0 ELSE 1)..(IF incl THEN Pow2(n) - 1 ELSE Pow2(n) - 2) :
        ord => IsThresholdPattern(p, n)}

C3_Body ==
    LET n == Len(items)
        m == Len(pairs)
    IN  /\ \A k \in 1..m : IsOrderPreservingSplit(pairs[k])
        /\ \A k \in 1..(m - 1) : PatternValue(pairs[k]) < PatternValue(pairs[k + 1])
        /\ {PatternValue(pairs[k]) : k \in 1..m} = Admissible(n, ordered, include_empty)
        /\ (~include_empty /\ m > 0) =>
              /\ pairs[1] = <<SubSeq(items, 1, n - 1), <<items[n]>>>>
              /\ pairs[m] = <<<<items[n]>>, SubSeq(items, 1, n - 1)>>
        /\ include_empty =>
              /\ m = Cardinality(Admissible(n, ordered, FALSE)) + 2
              /\ pairs[1] = <<items, <<>>>>
              /\ pairs[m] = <<<<>>, items>>
              /\ {PatternValue(pairs[k]) : k \in 2..(m - 1)}
                    = Admissible(n, ordered, FALSE)

\* C3 as stated: the pairs come in ascending order of the N-bit pattern
\* (first label most significant, 0 = first group); with include_empty the
\* no-empty sequence is returned with (all, []) added in front and
\* ([], all) added at the end, ordered or not.
C3_AnyN == GPDone => C3_Body

\* C3 (amended): for N >= 1 labels the pairs come in ascending order of the
\* N-bit pattern (first label most significant, 0 = first group); without
\* include_empty the first pair is (all but the last, [last]) and the last
\* is ([last], all others); with include_empty the same sequence is returned
\* with (all, []) in front and ([], all) at the end, ordered or not. (For
\* N = 0 with include_empty the single pair ([], []) is returned once.)
C3_AscendingPatternOrder == (GPDone /\ Len(items) >= 1) => C3_Body

C3_Witness ==
    /\ GPDone /\ ordered /\ include_empty
    /\ Len(items) = 4
    /\ Len(pairs) = 8
    /\ pairs[1] = <<items, <<>>>>
    /\ pairs[2] = <<SubSeq(items, 1, 3), <<items[4]>>>>

(***************************************************************************)
(* pandas values: labels and NaN in a Series, floats in a table            *)
(***************************************************************************)
\* numpy.nan as a value of a label column
NaN == "nan"

\* None as a Series or index-level name
NoName == "<None>"

\* a float cell, kept exact as a fraction; 0/0 is NaN and x/0 is inf
Num(n) == [num |-> n, den |-> 1]
NaNCell == [num |-> 0, den |-> 0]
InfCell == [num |-> 1, den |-> 0]
IsNaN(v) == v.num = 0 /\ v.den = 0

RECURSIVE GCD(_, _)
GCD(a, b) == IF b = 0 THEN a ELSE GCD(b, a % b)

Frac(n, d) == LET g == GCD(n, d) IN [num |-> n \div g, den |-> d \div g]

\* float division a / b
Div(a, b) ==
    IF IsNaN(a) \/ IsNaN(b) THEN NaNCell
    ELSE IF b.num = 0 THEN (IF a.num = 0 THEN NaNCell ELSE InfCell)
    ELSE Frac(a.num * b.den, a.den * b.num)

\* float addition of two finite cells
Add(a, b) == Frac(a.num * b.den + b.num * a.den, a.den * b.den)

\* sum(skipna=True) of f over S
RECURSIVE SumCells(_, _)
SumCells(S, f) ==
    IF S = {} THEN Num(0)
    ELSE LET x == CHOOSE y \in S : TRUE
             rest == SumCells(S \ {x}, f)
         IN  IF IsNaN(f[x]) THEN rest ELSE Add(f[x], rest)

(***************************************************************************)
(* The observation streams handed to count_coincidences                    *)
(***************************************************************************)
\* most observations one stream holds
MaxRows == 2

\* the respondents
Subjects == {1, 2}
Instances == {"aspirin", "paracetamol"}
InstanceLevelNames == {"medication", "drug"}
SubjectLevel == "Respondent ID"
Values1 == {"Female", "Male"}
Values2 == {"cough", "fever"}
Orders1 == {<<"Male", "Female">>}
Orders2 == {<<"cough", "fever">>, <<"fever">>}

\* a Series: its name, the names of its index levels and its rows; a row
\* keeps the key it was created with (id) beside its current index value (ix)
MakeSeries(name, index_names, f) ==
    [name |-> name, index_names |-> index_names,
     rows |-> {[id |-> k, ix |-> k, val |-> f[k]] : k \in DOMAIN f}]

KeySets(Keys) == {K \in SUBSET Keys : Cardinality(K) <= MaxRows}

\* streams keyed by subject id alone
SimpleStreams(name, values) ==
    UNION {{MakeSeries(name, <<SubjectLevel>>, f) : f \in [K -> values \cup {NaN}]}
           : K \in KeySets({<<sb>> : sb \in Subjects})}

\* streams keyed by (subject id, instance id)
StackedStreams(name, values, level_names) ==
    UNION {{MakeSeries(name, <<SubjectLevel, kl[2]>>, f) : f \in [kl[1] -> values \cup {NaN}]}
           : kl \in KeySets(Subjects \X Instances) \X level_names}

Streams(name, values, level_names) ==
    SimpleStreams(name, values) \cup StackedStreams(name, values, level_names)

(***************************************************************************)
(* count_coincidences                                                      *)
(***************************************************************************)
\* isinstance(data.index, MultiIndex)
IsMulti(d) == Len(d.index_names) > 1

\* the result of a call that raised e
Raise(e) == [kind |-> "error", error |-> e, index |-> <<>>, columns |-> <<>>,
             cell |-> <<>>]

\* the integers 1 and 0 of an indicator column, written as cell values that
\* can stand in a column beside labels and NaN
One == "1"
Zero == "0"

\* isinstance(data, DataFrame): a table of indicator columns, without a name
IsFrame(d) == "columns" \in DOMAIN d

\* the names of the Series in datas_1 or datas_2: the stream itself, or each
\* column of the table
ColumnsOf(d) == IF IsFrame(d) THEN d.columns ELSE <<d.name>>

\* a mutant of ReplaceIndicator: an indicator of 0 is relabelled like a 1
ReplaceIndicatorAny(v, col) == col

\* .replace({1: col, 0: nan}) of one cell
ReplaceIndicator(v, col) == IF v = One THEN col ELSE IF v = Zero THEN NaN ELSE v

\* for col in data.columns: data[col] = data[col].replace({1: col, 0: nan})
RelabelIndicators(d) ==
    IF IsFrame(d)
    THEN [d EXCEPT !.rows =
            {[r EXCEPT !.val = [c \in Range(d.columns) |-> ReplaceIndicator(r.val[c], c)]]
                : r \in d.rows}]
    ELSE d

\* a mutant of ValidateInputs: the names of the index levels are not looked at
ValidateInputsNamesOnly(d1, d2) ==
    IF d1.name = d2.name THEN "ValueError"
    ELSE IF d1.name = NoName THEN "ValueError"
    ELSE IF d2.name = NoName THEN "ValueError"
    ELSE "ok"

\* the validation of the two Series: "ok" or the exception raised
ValidateInputs(d1, d2) ==
    IF ~IsFrame(d1) /\ ~IsFrame(d2) /\ d1.name = d2.name THEN "ValueError"
    ELSE IF ~IsFrame(d1) /\ (d1.name = NoName \/ NoName \in Range(d1.index_names))
         THEN "ValueError"
    ELSE IF ~IsFrame(d2) /\ (d2.name = NoName \/ NoName \in Range(d2.index_names))
         THEN "ValueError"
    ELSE "ok"

\* s without its k-th element
RemoveAt(s, k) == SubSeq(s, 1, k - 1) \o SubSeq(s, k + 1, Len(s))

\* index.droplevel(index_name)
DropLevel(d, index_name) ==
    LET k == CHOOSE j \in 1..Len(d.index_names) : d.index_names[j] = index_name
    IN  [d EXCEPT !.index_names = RemoveAt(@, k),
                  !.rows = {[r EXCEPT !.ix = RemoveAt(@, k)] : r \in @}]

RECURSIVE DropLevelsFrom(_, _, _, _)
DropLevelsFrom(d, names, keep, k) ==
    IF k > Len(names) THEN d
    ELSE IF names[k] # keep
         THEN DropLevelsFrom(DropLevel(d, names[k]), names, keep, k + 1)
         ELSE DropLevelsFrom(d, names, keep, k + 1)

\* a mutant of DropRedundantLevels: the stacked stream keeps its levels
KeepAllLevels(d, keep) == d

\* drop every index level of d whose name is not keep
DropRedundantLevels(d, keep) == DropLevelsFrom(d, d.index_names, keep, 1)

\* a mutant of AlignIndexes: a stacked data_1 is not narrowed to data_2's key
AlignIndexesSecondOnly(d1, d2) ==
    IF IsMulti(d1) /\ IsMulti(d2) THEN
        IF Range(d1.index_names) # Range(d2.index_names)
        THEN [error |-> "ValueError", d1 |-> d1, d2 |-> d2]
        ELSE [error |-> "ok", d1 |-> d1, d2 |-> d2]
    ELSE IF ~IsMulti(d1) /\ IsMulti(d2) THEN
        IF ~({d1.index_names[1]} \subseteq Range(d2.index_names))
        THEN [error |-> "ValueError", d1 |-> d1, d2 |-> d2]
        ELSE [error |-> "ok", d1 |-> d1,
              d2 |-> DropRedundantLevels(d2, d1.index_names[1])]
    ELSE IF IsMulti(d1) /\ ~IsMulti(d2) THEN
        IF ~({d2.index_names[1]} \subseteq Range(d1.index_names))
        THEN [error |-> "ValueError", d1 |-> d1, d2 |-> d2]
        ELSE [error |-> "ok", d1 |-> d1, d2 |-> d2]
    ELSE
        IF d1.index_names[1] # d2.index_names[1]
        THEN [error |-> "ValueError", d1 |-> d1, d2 |-> d2]
        ELSE [error |-> "ok", d1 |-> d1, d2 |-> d2]

\* the exception of a failed alignment: the ValueError, or the AttributeError
\* of building its message from the .name of a DataFrame
AlignError(d1, d2) ==
    IF IsFrame(d1) \/ IsFrame(d2) THEN "AttributeError" ELSE "ValueError"

\* "drop indexes": reconcile the key shapes of the two streams
AlignIndexes(d1, d2) ==
    IF IsMulti(d1) /\ IsMulti(d2) THEN
        IF Range(d1.index_names) # Range(d2.index_names)
        THEN [error |-> AlignError(d1, d2), d1 |-> d1, d2 |-> d2]
        ELSE [error |-> "ok", d1 |-> d1, d2 |-> d2]
    ELSE IF ~IsMulti(d1) /\ IsMulti(d2) THEN
        IF ~({d1.index_names[1]} \subseteq Range(d2.index_names))
        THEN [error |-> AlignError(d1, d2), d1 |-> d1, d2 |-> d2]
        ELSE [error |-> "ok", d1 |-> d1,
              d2 |-> DropRedundantLevels(d2, d1.index_names[1])]
    ELSE IF IsMulti(d1) /\ ~IsMulti(d2) THEN
        IF ~({d2.index_names[1]} \subseteq Range(d1.index_names))
        THEN [error |-> AlignError(d1, d2), d1 |-> d1, d2 |-> d2]
        ELSE [error |-> "ok", d1 |-> DropRedundantLevels(d1, d2.index_names[1]),
              d2 |-> d2]
    ELSE
        IF d1.index_names[1] # d2.index_names[1]
        THEN [error |-> AlignError(d1, d2), d1 |-> d1, d2 |-> d2]
        ELSE [error |-> "ok", d1 |-> d1, d2 |-> d2]

\* the rows of a merge; l and r name the left and right rows joined
MergedRow(l, r, x, y) == [l |-> l, r |-> r, x |-> x, y |-> y]

\* the values of stream d in a merged row that has no row of d: NaN, in each
\* of its columns
Missing(d) == IF IsFrame(d) THEN [c \in Range(d.columns) |-> NaN] ELSE NaN

\* a mutant of Merge: rows are joined on the subject id alone
MergeOnSubject(d1, d2) ==
    {MergedRow(a.id, b.id, a.val, b.val) :
        <<a, b>> \in {p \in d1.rows \X d2.rows : p[1].ix[1] = p[2].ix[1]}}
    \cup {MergedRow(a.id, <<>>, a.val, NaN) :
        a \in {a \in d1.rows : \A b \in d2.rows : a.ix[1] # b.ix[1]}}
    \cup {MergedRow(<<>>, b.id, NaN, b.val) :
        b \in {b \in d2.rows : \A a \in d1.rows : a.ix[1] # b.ix[1]}}

\* merge(left=data_1, right=data_2, how='outer', left_index=True,
\* right_index=True): every pair of rows with equal index values, and every
\* unmatched row of either side with NaN for the other
Merge(d1, d2) ==
    {MergedRow(a.id, b.id, a.val, b.val) :
        <<a, b>> \in {p \in d1.rows \X d2.rows : p[1].ix = p[2].ix}}
    \cup {MergedRow(a.id, <<>>, a.val, Missing(d2)) :
        a \in {a \in d1.rows : \A b \in d2.rows : a.ix # b.ix}}
    \cup {MergedRow(<<>>, b.id, Missing(d1), b.val) :
        b \in {b \in d2.rows : \A a \in d1.rows : a.ix # b.ix}}

\* the column of the merged table that holds column c of stream d: its name
\* alone, or its name and the suffix when the other stream has the name too
MergedColumn(c, other, suffix) ==
    IF c \in Range(ColumnsOf(other)) THEN <<c, suffix>> ELSE <<c>>

\* data.columns
MergedColumns(d1, d2) ==
    {MergedColumn(c, d2, "_x") : c \in Range(ColumnsOf(d1))}
    \cup {MergedColumn(c, d1, "_y") : c \in Range(ColumnsOf(d2))}

\* d1.name if d1.name in data.columns else d1.name + '_x'
SuffixedName(name, data_columns, suffix) ==
    IF <<name>> \in data_columns THEN <<name>> ELSE <<name, suffix>>

\* the value of one side of a merged row in column c of that side's stream
SideValue(d, v, c) == IF IsFrame(d) THEN v[c] ELSE v

\* the value of the merged row m in the merged column key
MergedValue(m, d1, d2, key) ==
    IF key \in {MergedColumn(c, d2, "_x") : c \in Range(ColumnsOf(d1))}
    THEN SideValue(d1, m.x, key[1])
    ELSE SideValue(d2, m.y, key[1])

\* data[[d1_name, d2_name]]
SelectPair(merged, d1, d2, d1_name, d2_name) ==
    {MergedRow(m.l, m.r, MergedValue(m, d1, d2, d1_name),
               MergedValue(m, d1, d2, d2_name)) : m \in merged}

\* data[[d1_name, d2_name]].groupby([d1_name, d2_name]).size().reset_index():
\* one record per observed pair of non-missing values, with its row count
GroupBySize(merged) ==
    {[c1 |-> g[1], c2 |-> g[2],
      count |-> Cardinality({m \in merged : m.x = g[1] /\ m.y = g[2]})] :
        g \in {<<m.x, m.y>> : m \in {m \in merged : m.x # NaN /\ m.y # NaN}}}

\* the mean of the counts of a non-empty set of records
MeanCount(recs) ==
    Frac(SumOver(recs, [rec \in recs |-> rec.count]), Cardinality(recs))

\* pivot_table(data, index=column_2, columns=column_1, values='count'):
\* the mean count per (column_2, column_1) value, NaN where there is none
PivotTable(recs) ==
    LET idx == {rec.c2 : rec \in recs}
        cols == {rec.c1 : rec \in recs}
    IN  [index |-> idx, columns |-> cols,
         cell |-> [rc \in idx \X cols |->
            LET hit == {rec \in recs : rec.c2 = rc[1] /\ rec.c1 = rc[2]}
            IN  IF hit = {} THEN NaNCell ELSE MeanCount(hit)]]

\* a mutant of FillNa: missing cells are left missing
FillNaSkipped(v, fill) == v

\* fillna(fill) of one cell
FillNa(v, fill) == IF IsNaN(v) THEN Num(fill) ELSE v

\* a mutant of ReindexFill: a pivot table without rows is an error
ReindexFillEmptyRaises(pt, index_order, columns_order) ==
    IF pt.index = {} THEN Raise("KeyError")
    ELSE [kind |-> "table", error |-> "ok",
          index |-> index_order, columns |-> columns_order,
          cell |-> [rc \in Range(index_order) \X Range(columns_order) |->
             FillNa(IF rc[1] \in pt.index /\ rc[2] \in pt.columns
                    THEN pt.cell[rc] ELSE NaNCell, 0)]]

\* .reindex(index=column_2_order, columns=column_1_order).fillna(0)
ReindexFill(pt, index_order, columns_order) ==
    [kind |-> "table", error |-> "ok",
     index |-> index_order, columns |-> columns_order,
     cell |-> [rc \in Range(index_order) \X Range(columns_order) |->
        FillNa(IF rc[1] \in pt.index /\ rc[2] \in pt.columns
               THEN pt.cell[rc] ELSE NaNCell, 0)]]

\* concat(cp_lists): the records of every pair of product(datas_1, datas_2)
CpLists(d1, d2) ==
    LET merged == Merge(d1, d2)
        data_columns == MergedColumns(d1, d2)
    IN  UNION {GroupBySize(SelectPair(merged, d1, d2,
                                      SuffixedName(cc[1], data_columns, "_x"),
                                      SuffixedName(cc[2], data_columns, "_y"))) :
                cc \in Range(ColumnsOf(d1)) \X Range(ColumnsOf(d2))}

count_coincidences(d1, d2, column_1_ord, column_2_ord) ==
    IF ValidateInputs(d1, d2) # "ok" THEN Raise(ValidateInputs(d1, d2))
    ELSE LET al == AlignIndexes(RelabelIndicators(d1), RelabelIndicators(d2))
         IN  IF al.error # "ok" THEN Raise(al.error)
             ELSE ReindexFill(PivotTable(CpLists(al.d1, al.d2)),
                              column_2_ord, column_1_ord)

\* the two objects the body of count_coincidences works on, as they are when
\* it returns or raises: relabelled, and with the index levels dropped
Locals(d1, d2) ==
    IF ValidateInputs(d1, d2) # "ok"
    THEN IF ~IsFrame(d1) /\ ~IsFrame(d2) /\ d1.name = d2.name THEN <<d1, d2>>
         ELSE IF ~IsFrame(d1) THEN <<d1, d2>>
         ELSE <<RelabelIndicators(d1), d2>>
    ELSE LET al == AlignIndexes(RelabelIndicators(d1), RelabelIndicators(d2))
         IN  <<al.d1, al.d2>>

\* a mutant of CopiesInputs: the body works on the caller's objects
WorksInPlace == FALSE

\* data_1 = data_1.copy(); data_2 = data_2.copy()
CopiesInputs == TRUE

\* the caller's two streams after a call of count_coincidences
InputsAfter(d1, d2) == IF CopiesInputs THEN <<d1, d2>> ELSE Locals(d1, d2)

\* the caller's two streams after a call of a table builder, which hands them
\* to count_coincidences unless the two names are equal
InputsAfterBuilder(d1, d2, name_1, name_2) ==
    IF name_1 = name_2 THEN <<d1, d2>> ELSE InputsAfter(d1, d2)

CCInit ==
    /\ data_1 \in Streams("gender", Values1, {"medication"})
    /\ data_2 \in Streams("symptoms", Values2, InstanceLevelNames)
    /\ column_1 = data_1.name
    /\ column_2 = data_2.name
    /\ column_1_order \in Orders1
    /\ column_2_order \in Orders2
    /\ cc_op = "none"
    /\ cc_result = Idle
    /\ GPIdle
    /\ SigIdle
    /\ ExpIdle

\* count_coincidences called as its callers do, with two different column
\* names
CallCountCoincidences ==
    /\ cc_op = "none"
    /\ column_1 # column_2
    /\ cc_op' = "count_coincidences"
    /\ cc_result' = count_coincidences(data_1, data_2, column_1_order, column_2_order)
    /\ data_1' = InputsAfter(data_1, data_2)[1]
    /\ data_2' = InputsAfter(data_1, data_2)[2]
    /\ UNCHANGED <<column_1, column_2, column_1_order, column_2_order,
                   gp_vars, sig_vars, exp_vars>>

(***************************************************************************)
(* create_cpt, create_jpt, create_jct                                      *)
(***************************************************************************)
\* [x for x in order if x in present]
SelectPresent(order, present) ==
    LET Test(x) == x \in present IN SelectSeq(order, Test)

\* cp_table.sum(axis=1): the total of each row
RowSums(t) ==
    [r \in Range(t.index) |->
        SumCells(Range(t.columns), [c \in Range(t.columns) |-> t.cell[<<r, c>>]])]

\* cp_table.sum(axis=0): the total of each column
ColumnSums(t) ==
    [c \in Range(t.columns) |->
        SumCells(Range(t.index), [r \in Range(t.index) |-> t.cell[<<r, c>>]])]

\* the errors of a builder handed the same name twice
SameNamesCpt == "ValueError: prob_name must be different to cond_name"
SameNamesJpt == "ValueError: prob_1_name must be different to prob_2_name"

\* a mutant of create_cpt: each cell is divided by its column's total
create_cpt_by_column(prob_data, cond_data, prob_name, cond_name, prob_order, cond_order) ==
    IF prob_name = cond_name THEN Raise(SameNamesCpt)
    ELSE LET cp_table == count_coincidences(prob_data, cond_data, prob_order, cond_order)
         IN  IF cp_table.kind = "error" THEN cp_table
             ELSE [cp_table EXCEPT
                    !.cell = [rc \in DOMAIN @ |-> Div(@[rc], ColumnSums(cp_table)[rc[2]])]]

create_cpt(prob_data, cond_data, prob_name, cond_name, prob_order, cond_order) ==
    IF prob_name = cond_name THEN Raise(SameNamesCpt)
    ELSE LET cp_table == count_coincidences(prob_data, cond_data, prob_order, cond_order)
         IN  IF cp_table.kind = "error" THEN cp_table
             ELSE [cp_table EXCEPT
                    !.cell = [rc \in DOMAIN @ |-> Div(@[rc], RowSums(cp_table)[rc[1]])],
                    !.columns = SelectPresent(prob_order, Range(cp_table.columns)),
                    !.index = SelectPresent(cond_order, Range(cp_table.index))]

create_jpt(d1, d2, prob_1_name, prob_2_name, prob_1_order, prob_2_order) ==
    IF prob_1_name = prob_2_name THEN Raise(SameNamesJpt)
    ELSE LET jp_table == count_coincidences(d1, d2, prob_1_order, prob_2_order)
             col_sums == ColumnSums(jp_table)
             total == SumCells(DOMAIN col_sums, col_sums)
         IN  IF jp_table.kind = "error" THEN jp_table
             ELSE [jp_table EXCEPT !.cell = [rc \in DOMAIN @ |-> Div(@[rc], total)]]

\* a mutant of create_jct: the names are compared after the counting
create_jct_counts_first(d1, d2, count_1_name, count_2_name, count_1_order, count_2_order) ==
    LET jc_table == count_coincidences(d1, d2, count_1_order, count_2_order)
    IN  IF jc_table.kind = "error" THEN jc_table
        ELSE IF count_1_name = count_2_name THEN Raise(SameNamesJpt)
        ELSE jc_table

create_jct(d1, d2, count_1_name, count_2_name, count_1_order, count_2_order) ==
    IF count_1_name = count_2_name THEN Raise(SameNamesJpt)
    ELSE count_coincidences(d1, d2, count_1_order, count_2_order)

CallCreateCpt ==
    /\ cc_op = "none"
    /\ cc_op' = "create_cpt"
    /\ cc_result' = create_cpt(data_1, data_2, column_1, column_2,
                               column_1_order, column_2_order)
    /\ data_1' = InputsAfterBuilder(data_1, data_2, column_1, column_2)[1]
    /\ data_2' = InputsAfterBuilder(data_1, data_2, column_1, column_2)[2]
    /\ UNCHANGED <<column_1, column_2, column_1_order, column_2_order,
                   gp_vars, sig_vars, exp_vars>>

CallCreateJpt ==
    /\ cc_op = "none"
    /\ cc_op' = "create_jpt"
    /\ cc_result' = create_jpt(data_1, data_2, column_1, column_2,
                               column_1_order, column_2_order)
    /\ data_1' = InputsAfterBuilder(data_1, data_2, column_1, column_2)[1]
    /\ data_2' = InputsAfterBuilder(data_1, data_2, column_1, column_2)[2]
    /\ UNCHANGED <<column_1, column_2, column_1_order, column_2_order,
                   gp_vars, sig_vars, exp_vars>>

CallCreateJct ==
    /\ cc_op = "none"
    /\ cc_op' = "create_jct"
    /\ cc_result' = create_jct(data_1, data_2, column_1, column_2,
                               column_1_order, column_2_order)
    /\ data_1' = InputsAfterBuilder(data_1, data_2, column_1, column_2)[1]
    /\ data_2' = InputsAfterBuilder(data_1, data_2, column_1, column_2)[2]
    /\ UNCHANGED <<column_1, column_2, column_1_order, column_2_order,
                   gp_vars, sig_vars, exp_vars>>

CCNext == CallCountCoincidences \/ CallCreateCpt \/ CallCreateJpt \/ CallCreateJct

SpecCC == CCInit /\ [][CCNext]_vars

(***************************************************************************)
(* The same calls on streams and names that may be unnamed or equal        *)
(***************************************************************************)
\* the names a stream or a column is given
StreamNames == {"gender", "symptoms", NoName}
ColumnNames == {"gender", "symptoms"}

\* the name of the key of a simple stream
SimpleIndexNames == {<<SubjectLevel>>, <<"Subject">>, <<NoName>>}

\* the names of the key levels of a stacked stream
StackedIndexNames ==
    {<<SubjectLevel, "medication">>, <<SubjectLevel, "drug">>,
     <<SubjectLevel, NoName>>, <<NoName, "medication">>, <<"Subject", "medication">>}

\* simple and stacked streams of one or two observations of the value v,
\* under every name and every naming of the key
NamedStreams(v) ==
    {MakeSeries(name, index_names, f) :
        name \in StreamNames, index_names \in SimpleIndexNames,
        f \in {(<<1>> :> v), (<<1>> :> v) @@ (<<2>> :> v)}}
    \cup
    {MakeSeries(name, index_names, f) :
        name \in StreamNames, index_names \in StackedIndexNames,
        f \in {(<<1, "aspirin">> :> v),
               (<<1, "aspirin">> :> v) @@ (<<2, "aspirin">> :> v)}}

CCNamesInit ==
    /\ data_1 \in NamedStreams("Female")
    /\ data_2 \in NamedStreams("cough")
    /\ column_1 \in ColumnNames
    /\ column_2 \in ColumnNames
    /\ column_1_order \in Orders1
    /\ column_2_order \in Orders2
    /\ cc_op = "none"
    /\ cc_result = Idle
    /\ GPIdle
    /\ SigIdle
    /\ ExpIdle

SpecCCNames == CCNamesInit /\ [][CCNext]_vars

(***************************************************************************)
(* The same calls with the indicator table of a multi-choice question      *)
(***************************************************************************)
\* the choices of two multi-choice questions; "fever" is a choice of both
Choices1 == <<"cough", "fever">>
Choices2 == <<"fever", "rash">>

\* the orders asked for the choices
ChoiceOrders1 == {Choices1, <<"fever">>}
ChoiceOrders2 == {Choices2, <<"rash", "fever">>}

\* the name of the key of an indicator table
FrameIndexNames == {<<SubjectLevel>>, <<NoName>>}

\* a DataFrame of indicator columns (MultiChoiceQuestion.make_features with
\* naming='{{choice}}'): one row per subject, 1 or 0 under each choice
MakeFrame(frame_columns, index_names, f) ==
    [columns |-> frame_columns, index_names |-> index_names,
     rows |-> {[id |-> k, ix |-> k, val |-> f[k]] : k \in DOMAIN f}]

IndicatorTables(frame_columns) ==
    UNION {{MakeFrame(frame_columns, index_names, f) :
                f \in [K -> [Range(frame_columns) -> {Zero, One}]],
                index_names \in FrameIndexNames}
           : K \in KeySets({<<sb>> : sb \in Subjects})}

\* at least one of the two streams is an indicator table
CCFramesInit ==
    /\ \/ /\ data_1 \in IndicatorTables(Choices1)
          /\ data_2 \in Streams("gender", Values1, {"medication"})
          /\ column_1_order \in ChoiceOrders1
          /\ column_2_order \in Orders1
       \/ /\ data_1 \in Streams("gender", Values1, {"medication"})
          /\ data_2 \in IndicatorTables(Choices2)
          /\ column_1_order \in Orders1
          /\ column_2_order \in ChoiceOrders2
       \/ /\ data_1 \in IndicatorTables(Choices1)
          /\ data_2 \in IndicatorTables(Choices2)
          /\ column_1_order \in ChoiceOrders1
          /\ column_2_order \in ChoiceOrders2
    /\ column_1 = IF IsFrame(data_1) THEN "symptoms" ELSE data_1.name
    /\ column_2 = IF IsFrame(data_2) THEN "conditions" ELSE data_2.name
    /\ cc_op = "none"
    /\ cc_result = Idle
    /\ GPIdle
    /\ SigIdle
    /\ ExpIdle

SpecCCFrames == CCFramesInit /\ [][CCNext]_vars

(***************************************************************************)
(* Claims about count_coincidences                                         *)
(***************************************************************************)
\* stream d holds label v at the key it was created with
HasLabel(d, k, v) == \E row \in d.rows : row.id = k /\ row.val = v

CountDone == cc_op = "count_coincidences"

\* the result is a table with rows column_2_order, columns column_1_order
\* and one cell per combination
ShapedByOrders(t) ==
    /\ t.kind = "table"
    /\ t.index = column_2_order
    /\ t.columns = column_1_order
    /\ DOMAIN t.cell = Range(column_2_order) \X Range(column_1_order)

\* every cell (r, c) of the result holds the number n[<<r, c>>]
CellsAre(n) ==
    \A rc \in Range(column_2_order) \X Range(column_1_order) :
        cc_result.cell[rc] = Num(n[rc])

\* the number of keys at which data_2 has label r and data_1 has label c
SameKeyTally(keys) ==
    [rc \in Range(column_2_order) \X Range(column_1_order) |->
        Cardinality({k \in keys : HasLabel(data_2, k, rc[1]) /\ HasLabel(data_1, k, rc[2])})]

\* C4: for two single-column simple streams the table has exactly the rows
\* column_2_order and the columns column_1_order, cell (r, c) is the number
\* of keys at which data_2 has label r and data_1 has label c, and a
\* combination never observed together is 0.
C4_SimpleSimpleCounts ==
    (CountDone /\ ~IsMulti(data_1) /\ ~IsMulti(data_2)) =>
        /\ ShapedByOrders(cc_result)
        /\ CellsAre(SameKeyTally({<<sb>> : sb \in Subjects}))

C4_Witness ==
    /\ CountDone /\ ~IsMulti(data_1) /\ ~IsMulti(data_2)
    /\ column_2_order = <<"cough", "fever">>
    /\ cc_result.kind = "table"
    /\ cc_result.cell[<<"cough", "Male">>] = Num(2)
    /\ cc_result.cell[<<"fever", "Female">>] = Num(0)

\* the number of observations of the stacked stream whose subject is in the
\* simple stream, by the pair of labels
BroadcastTally(simple, stacked, stacked_is_first) ==
    [rc \in Range(column_2_order) \X Range(column_1_order) |->
        Cardinality({row \in stacked.rows :
            /\ row.val = (IF stacked_is_first THEN rc[2] ELSE rc[1])
            /\ HasLabel(simple, <<row.id[1]>>,
                        IF stacked_is_first THEN rc[1] ELSE rc[2])})]

\* C5: with one simple and one stacked stream, cell (r, c) is the number of
\* stacked observations whose subject also appears in the simple stream and
\* whose two labels are r and c, whichever argument the stacked stream is.
C5_SimpleStackedBroadcast ==
    /\ (CountDone /\ ~IsMulti(data_1) /\ IsMulti(data_2)) =>
          /\ ShapedByOrders(cc_result)
          /\ CellsAre(BroadcastTally(data_1, data_2, FALSE))
    /\ (CountDone /\ IsMulti(data_1) /\ ~IsMulti(data_2)) =>
          /\ ShapedByOrders(cc_result)
          /\ CellsAre(BroadcastTally(data_2, data_1, TRUE))

C5_Witness ==
    /\ CountDone /\ IsMulti(data_1) /\ ~IsMulti(data_2)
    /\ column_2_order = <<"cough", "fever">>
    /\ cc_result.kind = "table"
    /\ cc_result.cell[<<"cough", "Male">>] = Num(2)
    /\ Cardinality(data_2.rows) = 1

\* the instance labels a stacked stream uses
InstancesOf(d) == {row.id[2] : row \in d.rows}

\* the number of pairs of observations of one subject, whatever their
\* instance labels, by the pair of labels
SameSubjectTally ==
    [rc \in Range(column_2_order) \X Range(column_1_order) |->
        Cardinality({ab \in data_1.rows \X data_2.rows :
            /\ ab[1].id[1] = ab[2].id[1]
            /\ ab[1].val = rc[2]
            /\ ab[2].val = rc[1]})]

\* C6 as stated: two stacked streams over different instance vocabularies
\* are aligned by subject only, so an observation under one instance label
\* is tallied against the same subject's observation under another.
C6_AlignsOnSubjectOnly ==
    (/\ CountDone /\ IsMulti(data_1) /\ IsMulti(data_2)
     /\ data_1.index_names = data_2.index_names
     /\ InstancesOf(data_1) # InstancesOf(data_2)) =>
        /\ ShapedByOrders(cc_result)
        /\ CellsAre(SameSubjectTally)

\* C6 (amended): two stacked streams must carry the same index level names,
\* otherwise the call fails with ValueError; when they do, they are aligned
\* on the full key (subject, instance), so an observation is tallied only
\* against the other stream's observation of the same subject under the
\* same instance label.
C6_StackedAlignOnFullKey ==
    (CountDone /\ IsMulti(data_1) /\ IsMulti(data_2)) =>
        IF Range(data_1.index_names) # Range(data_2.index_names)
        THEN cc_result.kind = "error" /\ cc_result.error = "ValueError"
        ELSE /\ ShapedByOrders(cc_result)
             /\ CellsAre(SameKeyTally(Subjects \X Instances))

C6_Witness ==
    /\ CountDone /\ IsMulti(data_1) /\ IsMulti(data_2)
    /\ data_1.index_names = data_2.index_names
    /\ InstancesOf(data_1) # InstancesOf(data_2)
    /\ column_2_order = <<"cough", "fever">>
    /\ cc_result.kind = "table"
    /\ cc_result.cell[<<"cough", "Male">>] = Num(1)
    /\ SameSubjectTally[<<"cough", "Male">>] = 2

T == count_coincidences(data_1, data_2, column_1_order, column_2_order)

\* the counts of T as integers
RowTotal(r) ==
    SumOver(Range(column_1_order), [c \in Range(column_1_order) |-> T.cell[<<r, c>>].num])
GrandTotal ==
    SumOver(Range(column_2_order), [r \in Range(column_2_order) |-> RowTotal(r)])

\* the fraction v equals n / d
IsRatio(v, n, d) == v.den > 0 /\ v.num * d = n * v.den

\* the cells of S add up to one
SumsToOne(S) == SumCells(S, [rc \in S |-> cc_result.cell[rc]]) = Num(1)

\* C8: over the same streams, names and orders, with T the table of
\* count_coincidences: create_jct returns T; each cell of create_jpt is
\* T[r][c] over the grand total of T, so a table with non-zero total sums
\* to 1; in each row of create_cpt with non-zero total each cell is T[r][c]
\* over the row total, so the row sums to 1.
C8_BuildersAgreeWithCounts ==
    /\ (cc_op = "create_jct") => cc_result = T
    /\ (cc_op = "create_jpt" /\ T.kind = "table" /\ GrandTotal # 0) =>
          /\ ShapedByOrders(cc_result)
          /\ \A rc \in DOMAIN T.cell :
                IsRatio(cc_result.cell[rc], T.cell[rc].num, GrandTotal)
          /\ SumsToOne(DOMAIN T.cell)
    /\ (cc_op = "create_cpt" /\ T.kind = "table") =>
          /\ ShapedByOrders(cc_result)
          /\ \A r \in Range(column_2_order) :
                RowTotal(r) # 0 =>
                    /\ \A c \in Range(column_1_order) :
                          IsRatio(cc_result.cell[<<r, c>>], T.cell[<<r, c>>].num,
                                  RowTotal(r))
                    /\ SumsToOne({r} \X Range(column_1_order))

C8_Witness ==
    /\ cc_op = "create_cpt"
    /\ column_2_order = <<"cough", "fever">>
    /\ cc_result.kind = "table"
    /\ cc_result.cell[<<"cough", "Male">>] = [num |-> 1, den |-> 2]
    /\ cc_result.cell[<<"cough", "Female">>] = [num |-> 1, den |-> 2]
    /\ T.cell[<<"cough", "Male">>] = Num(1)

\* C9: in the table of create_cpt a condition row whose total count is zero
\* stays all-zero and never becomes NaN (stated for tables that hold at
\* least one coincidence).
C9_ZeroRowStaysZero ==
    (cc_op = "create_cpt" /\ cc_result.kind = "table" /\ GrandTotal # 0) =>
        \A r \in Range(column_2_order) :
            RowTotal(r) = 0 =>
                \A c \in Range(column_1_order) : cc_result.cell[<<r, c>>] = Num(0)

(***************************************************************************)
(* SingleCategorySignificanceMixin.significance_one_vs_all                 *)
(***************************************************************************)
\* most responses a question holds
MaxResponses == 3
\* most categories a question declares
MaxCategories == 3

\* the labels a response or a category is drawn from
SigLabels == {"apples", "bananas", "cherries", "dates"}

\* sequences over S of length 0..n
SeqsUpTo(S, n) == UNION {[1..k -> S] : k \in 0..n}

\* data.value_counts(): the count of every value present, NaN left out
value_counts(d) ==
    [v \in {d[j] : j \in {j \in 1..Len(d) : d[j] # NaN}} |->
        Cardinality({j \in 1..Len(d) : d[j] = v})]

\* data.dropna()
dropna(d) == LET Present(v) == v # NaN IN SelectSeq(d, Present)

\* self.data.value_counts()[category], 0 on KeyError
category_count(d, category) ==
    IF category \in DOMAIN value_counts(d) THEN value_counts(d)[category] ELSE 0

\* a mutant of num_responses: missing responses are counted too
num_responses_with_missing(d) == Len(d)

\* len(self.data.dropna())
num_responses(d) == Len(dropna(d))

\* BetaBinomialConjugate(alpha, beta, n, k)
BetaBinomialConjugate(alpha, beta, n, k) ==
    [alpha |-> alpha, beta |-> beta, n |-> n, k |-> k]

\* bb_1.posterior() > bb_2.posterior(): the comparison of the two beliefs
PosteriorGreater(bb_1, bb_2) == [left |-> bb_1, right |-> bb_2]

SigInit ==
    /\ categories \in DistinctSeqs(SigLabels, MaxCategories) \ {<<>>}
    /\ data \in SeqsUpTo(SigLabels \cup {NaN}, MaxResponses)
    /\ category_index = 1
    /\ results = <<>>
    /\ sig_pc \in {"loop", "any_loop", "one_loop"}
    /\ sig_return = <<>>
    /\ GPIdle
    /\ CCIdle
    /\ ExpIdle

\* one pass of the loop over self.categories
OneVsAllStep ==
    /\ sig_pc = "loop"
    /\ category_index <= Len(categories)
    /\ LET category == categories[category_index]
           bb_category == BetaBinomialConjugate(1, 1, num_responses(data),
                                                category_count(data, category))
           bb_rest == BetaBinomialConjugate(1, 1, num_responses(data),
                          num_responses(data) - category_count(data, category))
       IN  results' = Append(results, [category |-> category,
                                       p |-> PosteriorGreater(bb_category, bb_rest)])
    /\ category_index' = category_index + 1
    /\ UNCHANGED <<categories, data, sig_pc, sig_return, gp_vars, cc_vars, exp_vars>>

\* DataFrame(results).set_index('category')['p']
OneVsAllReturn ==
    /\ sig_pc = "loop"
    /\ category_index > Len(categories)
    /\ sig_return' = [k \in 1..Len(results) |->
                        [index |-> results[k].category, value |-> results[k].p]]
    /\ sig_pc' = "done"
    /\ UNCHANGED <<categories, data, category_index, results, gp_vars, cc_vars, exp_vars>>

\* sums = self.data.value_counts().reindex(self.categories).fillna(0).astype(int)
sums(d, cats) == [c \in Range(cats) |-> category_count(d, c)]

\* anys = [c for c in self.categories if c != category]
anys(cats, category) == LET Other(c) == c # category IN SelectSeq(cats, Other)

\* n_one = n_any = len(self.data)
n_any(d) == Len(d)

\* sums[anys].mean(): the sum over the number of entries, NaN for no entry
m_any(d, cats, category) ==
    LET others == anys(cats, category)
        total == SumOver(1..Len(others), [j \in 1..Len(others) |-> sums(d, cats)[others[j]]])
    IN  Div(Num(total), Num(Len(others)))

\* one pass of the loop of significance_one_vs_any
OneVsAnyStep ==
    /\ sig_pc = "any_loop"
    /\ category_index <= Len(categories)
    /\ LET category == categories[category_index]
           bb_one == BetaBinomialConjugate(1, 1, n_any(data),
                                           sums(data, categories)[category])
           bb_any == BetaBinomialConjugate(1, 1, n_any(data),
                                           m_any(data, categories, category))
       IN  results' = Append(results, [category |-> category,
                                       p |-> PosteriorGreater(bb_one, bb_any)])
    /\ category_index' = category_index + 1
    /\ UNCHANGED <<categories, data, sig_pc, sig_return, gp_vars, cc_vars, exp_vars>>

\* DataFrame(results).set_index('category')['p']
OneVsAnyReturn ==
    /\ sig_pc = "any_loop"
    /\ category_index > Len(categories)
    /\ sig_return' = [k \in 1..Len(results) |->
                        [index |-> results[k].category, value |-> results[k].p]]
    /\ sig_pc' = "any_done"
    /\ UNCHANGED <<categories, data, category_index, results, gp_vars, cc_vars, exp_vars>>

\* one pass of the loop of significance_one_vs_one over
\* product(self.categories, self.categories), the second list running fastest
OneVsOneStep ==
    /\ sig_pc = "one_loop"
    /\ category_index <= Len(categories) * Len(categories)
    /\ LET category_1 == categories[((category_index - 1) \div Len(categories)) + 1]
           category_2 == categories[((category_index - 1) % Len(categories)) + 1]
           bb_category_1 == BetaBinomialConjugate(1, 1, num_responses(data),
                                                  category_count(data, category_1))
           bb_category_2 == BetaBinomialConjugate(1, 1, num_responses(data),
                                                  category_count(data, category_2))
       IN  results' = Append(results,
                             [category_1 |-> category_1, category_2 |-> category_2,
                              p |-> PosteriorGreater(bb_category_1, bb_category_2)])
    /\ category_index' = category_index + 1
    /\ UNCHANGED <<categories, data, sig_pc, sig_return, gp_vars, cc_vars, exp_vars>>

\* pivot_table(results_data, index='category_1', columns='category_2', values='p')
OneVsOneReturn ==
    /\ sig_pc = "one_loop"
    /\ category_index > Len(categories) * Len(categories)
    /\ sig_return' = [rc \in {<<results[k].category_1, results[k].category_2>> :
                                 k \in 1..Len(results)} |->
                        LET k == CHOOSE k \in 1..Len(results) :
                                    rc = <<results[k].category_1, results[k].category_2>>
                        IN  results[k].p]
    /\ sig_pc' = "one_done"
    /\ UNCHANGED <<categories, data, category_index, results, gp_vars, cc_vars, exp_vars>>

SigNext ==
    \/ OneVsAllStep \/ OneVsAllReturn
    \/ OneVsAnyStep \/ OneVsAnyReturn
    \/ OneVsOneStep \/ OneVsOneReturn

SpecSig == SigInit /\ [][SigNext]_vars

(***************************************************************************)
(* Claims about significance_one_vs_all                                    *)
(***************************************************************************)
\* the number of non-missing responses
NonMissing == Cardinality({j \in 1..Len(data) : data[j] # NaN})

\* the number of responses equal to c
Chosen(c) == Cardinality({j \in 1..Len(data) : data[j] = c})

\* C10: significance_one_vs_all returns one value per category, and for
\* category c it compares the belief of (trials n, successes k_c) with the
\* belief of (trials n, successes n - k_c), n the number of non-missing
\* responses and k_c the number of responses equal to c (0 if never chosen).
C10_OneVsAllCounts ==
    (sig_pc = "done") =>
        /\ Len(sig_return) = Len(categories)
        /\ \A k \in 1..Len(categories) :
              /\ sig_return[k].index = categories[k]
              /\ sig_return[k].value.left =
                    [alpha |-> 1, beta |-> 1, n |-> NonMissing,
                     k |-> Chosen(categories[k])]
              /\ sig_return[k].value.right =
                    [alpha |-> 1, beta |-> 1, n |-> NonMissing,
                     k |-> NonMissing - Chosen(categories[k])]

C10_Witness ==
    /\ sig_pc = "done"
    /\ Len(categories) = 3
    /\ Len(data) = 3
    /\ NonMissing = 2
    /\ Chosen(categories[1]) = 2
    /\ Chosen(categories[2]) = 0
    /\ sig_return[1].value.right.k = 0

(***************************************************************************)
(* Claims about significance_one_vs_any                                    *)
(***************************************************************************)
\* the sum of the counts of all the categories
SumOfCounts ==
    SumOver(1..Len(categories), [k \in 1..Len(categories) |-> Chosen(categories[k])])

\* the mean of the counts of the categories other than categories[k]
MeanOfOthers(k) ==
    Div(Num(SumOfCounts - Chosen(categories[k])), Num(Len(categories) - 1))

\* C11: significance_one_vs_any compares, for each category c, the belief of
\* (trials n, successes k_c) with the belief of (trials n, successes m_c),
\* where n is the number of responses given (the sum of all category
\* counts), k_c the count of c and m_c the mean of the counts of the other
\* categories; both beliefs use the same n.
C11_OneVsAnyCounts ==
    (sig_pc = "any_done") =>
        /\ Len(sig_return) = Len(categories)
        /\ \A k \in 1..Len(categories) :
              /\ sig_return[k].index = categories[k]
              /\ sig_return[k].value.left =
                    [alpha |-> 1, beta |-> 1, n |-> SumOfCounts,
                     k |-> Chosen(categories[k])]
              /\ sig_return[k].value.right =
                    [alpha |-> 1, beta |-> 1, n |-> SumOfCounts,
                     k |-> MeanOfOthers(k)]

(***************************************************************************)
(* The survey and the two variables of an experiment                       *)
(***************************************************************************)
\* most respondents of the survey
MaxRespondents == 2
\* most categories of the independent or of the dependent variable
MaxExpCategories == 3

\* an Optional argument: None, or a value that was passed
None == <<>>
Some(x) == <<x>>

\* the categories of the independent and of the dependent variable are the
\* first labels of these lists
IndLabels == <<"Female", "Male", "Other", "Unknown">>
DepLabels == <<"no", "maybe", "yes", "always">>

IndName == "gender"
DepName == "purchase"
SurveyName == "survey"

\* the independent variable: a SingleCategoryAttribute
\* (AttributeToQuestionExperiment) or a SingleChoiceQuestion
\* (QuestionToQuestionExperiment), with the _independent_names of its mixin
Independents ==
    {[name |-> IndName, category_names |-> SubSeq(IndLabels, 1, n),
      ordered |-> o, names |-> nm] :
        n \in 1..MaxExpCategories, o \in BOOLEAN,
        nm \in {"ind_attr_vals", "ind_answers"}}

\* the dependent variable: a SingleChoiceQuestion
Dependents ==
    {[name |-> DepName, category_names |-> SubSeq(DepLabels, 1, n),
      ordered |-> o, names |-> "dep_answers"] :
        n \in 1..MaxExpCategories, o \in BOOLEAN}

\* survey._data: one row per respondent, a value or NaN in each column
SurveyRows(ind, dep) ==
    [{ind.name, dep.name} ->
        Range(ind.category_names) \cup Range(dep.category_names) \cup {NaN}]

SurveyDatas(ind, dep) ==
    {sd \in SeqsUpTo(SurveyRows(ind, dep), MaxRespondents) :
        \A k \in 1..Len(sd) :
            /\ sd[k][ind.name] \in Range(ind.category_names) \cup {NaN}
            /\ sd[k][dep.name] \in Range(dep.category_names) \cup {NaN}}

(***************************************************************************)
(* group_pairs, count_responses, calculate                                 *)
(***************************************************************************)
\* the loop of get_group_pairs from pattern k on
RECURSIVE GroupPairsFrom(_, _, _, _)
GroupPairsFrom(its, ord, incl, k) ==
    IF k >= IEnd(Len(its), incl) THEN <<>>
    ELSE LET bin_string == ZFill(FormatBin(k), Len(its))
             rest == GroupPairsFrom(its, ord, incl, k + 1)
         IN  IF ord /\ ~IsOrderedPattern(bin_string, Len(its)) THEN rest
             ELSE <<get_groups(bin_string, its)>> \o rest

get_group_pairs(its, ord, incl) ==
    GroupPairsFrom(its, ord, incl, IStart(Len(its), incl))

\* CategoricalMixin.group_pairs(ordered)
group_pairs(variable, ord) ==
    get_group_pairs(variable.category_names, ord, FALSE)

\* itertools.product(A, B) as a list: A is the outer loop
product(A, B) ==
    [k \in 1..(Len(A) * Len(B)) |->
        <<A[((k - 1) \div Len(B)) + 1], B[((k - 1) % Len(B)) + 1]>>]

\* a mutant of count_responses: the respondents who did not answer the
\* question are kept
count_responses_keep_missing(sd, question, answers, condition_category, condition_values) ==
    LET Answered(r) == r[question.name] \in Range(answers[1])
        d1 == IF answers # None THEN SelectSeq(sd, Answered) ELSE sd
        Conditioned(r) == r[condition_category[1].name] \in Range(condition_values[1])
        d2 == IF condition_category # None /\ condition_values # None
              THEN SelectSeq(d1, Conditioned) ELSE d1
    IN  Len(d2)

\* Survey.count_responses
count_responses(sd, question, answers, condition_category, condition_values) ==
    LET NotNull(r) == r[question.name] # NaN
        d0 == SelectSeq(sd, NotNull)
        Answered(r) == r[question.name] \in Range(answers[1])
        d1 == IF answers # None THEN SelectSeq(d0, Answered) ELSE d0
        Conditioned(r) == r[condition_category[1].name] \in Range(condition_values[1])
        d2 == IF condition_category # None /\ condition_values # None
              THEN SelectSeq(d1, Conditioned) ELSE d1
    IN  Len(d2)

\* a mutant of calculate: the trials of the control group are all the
\* respondents who answered
calculate_control_of_all(sd, ind, dep, exp_ind_values, exp_dep_values, ctl_ind_values, ctl_dep_values) ==
    LET n_exp == count_responses(sd, dep, None, Some(ind), Some(exp_ind_values))
        k_exp == count_responses(sd, dep, Some(exp_dep_values), Some(ind),
                                 Some(exp_ind_values))
        n_ctl == count_responses(sd, dep, None, None, None)
        k_ctl == count_responses(sd, dep, Some(ctl_dep_values), Some(ind),
                                 Some(ctl_ind_values))
        bb_exp == BetaBinomialConjugate(1, 1, n_exp, k_exp)
        bb_ctl == BetaBinomialConjugate(1, 1, n_ctl, k_ctl)
    IN  <<bb_ctl, bb_exp>>

\* SingleToSingleExperimentMixin.calculate: returns (bb_ctl, bb_exp)
calculate(sd, ind, dep, exp_ind_values, exp_dep_values, ctl_ind_values, ctl_dep_values) ==
    LET n_exp == count_responses(sd, dep, None, Some(ind), Some(exp_ind_values))
        k_exp == count_responses(sd, dep, Some(exp_dep_values), Some(ind),
                                 Some(exp_ind_values))
        n_ctl == count_responses(sd, dep, None, Some(ind), Some(ctl_ind_values))
        k_ctl == count_responses(sd, dep, Some(ctl_dep_values), Some(ind),
                                 Some(ctl_ind_values))
        bb_exp == BetaBinomialConjugate(1, 1, n_exp, k_exp)
        bb_ctl == BetaBinomialConjugate(1, 1, n_ctl, k_ctl)
    IN  <<bb_ctl, bb_exp>>

(***************************************************************************)
(* ExperimentResult and results_data                                       *)
(***************************************************************************)
RespondentGroup(respondent_values, response_values) ==
    [respondent_values |-> respondent_values, response_values |-> response_values]

ExperimentResult(ctl_group, exp_group, ctl_dist, exp_dist) ==
    [ctl_group |-> ctl_group, exp_group |-> exp_group,
     ctl_dist |-> ctl_dist, exp_dist |-> exp_dist]

\* float subtraction of two finite cells
Sub(a, b) == Frac(a.num * b.den - b.num * a.den, a.den * b.den)

\* dist.posterior().mean(): the mean of Beta(alpha + k, beta + n - k)
posterior_mean(dist) ==
    Div(Num(dist.alpha + dist.k), Num(dist.alpha + dist.beta + dist.n))

ctl_mean(result) == posterior_mean(result.ctl_dist)
exp_mean(result) == posterior_mean(result.exp_dist)
effect_mean(result) ==
    Sub(posterior_mean(result.exp_dist), posterior_mean(result.ctl_dist))

\* prob_ppd_superior(): self._exp_dist > self._ctl_dist
prob_ppd_superior(result) == PosteriorGreater(result.exp_dist, result.ctl_dist)

\* join_str.join(values): the labels with the separator between them
RECURSIVE Join(_, _)
Join(join_str, values) ==
    IF Len(values) = 0 THEN <<>>
    ELSE IF Len(values) = 1 THEN <<values[1]>>
    ELSE <<values[1], join_str>> \o Join(join_str, Tail(values))

\* DataFrame(results_list)[columns]: KeyError unless every selected column
\* is a key of some row; a key missing from one row reads NaN
SelectColumns(results_list, columns) ==
    LET present == UNION {DOMAIN results_list[k] : k \in 1..Len(results_list)}
    IN  IF ~(Range(columns) \subseteq present) THEN Raise("KeyError")
        ELSE [kind |-> "frame", columns |-> columns,
              rows |-> [k \in 1..Len(results_list) |->
                          [c \in Range(columns) |->
                              IF c \in DOMAIN results_list[k]
                              THEN results_list[k][c] ELSE NaN]]]

\* the group_values branch of the loop body of results_data
GroupedDict(ind, dep, result, join_str) ==
    LET ind_values_exp == result.exp_group.respondent_values[ind.name]
        ind_values_ctl == result.ctl_group.respondent_values[ind.name]
        dep_values_exp == result.exp_group.response_values[dep.name]
        NotExp(val) == val \notin Range(dep_values_exp)
        dep_values_ctl == SelectSeq(dep.category_names, NotExp)
    IN  (<<"survey_name">> :> SurveyName) @@
        (<<"survey_question">> :> dep.name) @@
        (<<"attribute_name">> :> ind.name) @@
        (<<ind.names, "_exp">> :> Join(join_str, ind_values_exp)) @@
        (<<ind.names, "_ctl">> :> Join(join_str, ind_values_ctl)) @@
        (<<dep.names, "_exp">> :> Join(join_str, dep_values_exp)) @@
        (<<dep.names, "_ctl">> :> Join(join_str, dep_values_ctl)) @@
        (<<"p_superior">> :> prob_ppd_superior(result)) @@
        (<<"effect_mean">> :> effect_mean(result)) @@
        (<<"exp_mean">> :> exp_mean(result)) @@
        (<<"ctl_mean">> :> ctl_mean(result))

\* the other branch: one boolean column per value
FlagDict(ind, dep, result) ==
    LET ind_values_exp == result.exp_group.respondent_values[ind.name]
        ind_values_ctl == result.ctl_group.respondent_values[ind.name]
        dep_values_exp == result.exp_group.response_values[dep.name]
        NotExp(val) == val \notin Range(dep_values_exp)
        dep_values_ctl == SelectSeq(dep.category_names, NotExp)
    IN  [c \in {<<ind.name, attr>> : attr \in Range(ind_values_exp)} |-> TRUE] @@
        [c \in {<<ind.name, attr>> : attr \in Range(ind_values_ctl)} |-> FALSE] @@
        [c \in {<<"answer", answer>> : answer \in Range(dep_values_exp)} |-> TRUE] @@
        [c \in {<<"answer", answer>> : answer \in Range(dep_values_ctl)} |-> FALSE] @@
        (<<"survey", "name">> :> SurveyName) @@
        (<<"survey", "question">> :> dep.name) @@
        (<<"result", "p_superior">> :> prob_ppd_superior(result)) @@
        (<<"result", "effect_mean">> :> effect_mean(result)) @@
        (<<"result", "exp_mean">> :> exp_mean(result)) @@
        (<<"result", "ctl_mean">> :> ctl_mean(result))

\* the columns selected when group_values is set
GroupedColumns ==
    <<<<"survey_name">>, <<"survey_question">>, <<"attribute_name">>,
      <<"ind_answers", "_exp">>, <<"ind_answers", "_ctl">>,
      <<"dep_answers", "_exp">>, <<"dep_answers", "_ctl">>,
      <<"p_superior">>, <<"effect_mean">>, <<"exp_mean">>, <<"ctl_mean">>>>

\* the columns selected otherwise
FlagColumns(ind, dep) ==
    <<<<"survey", "name">>, <<"survey", "question">>>> \o
    [k \in 1..Len(ind.category_names) |-> <<ind.name, ind.category_names[k]>>] \o
    [k \in 1..Len(dep.category_names) |-> <<"answer", dep.category_names[k]>>] \o
    <<<<"result", "p_superior">>, <<"result", "effect_mean">>,
      <<"result", "exp_mean">>, <<"result", "ctl_mean">>>>

\* SingleToSingleExperimentMixin.results_data
results_data(ind, dep, rs, group_values, join_str) ==
    IF group_values
    THEN SelectColumns([k \in 1..Len(rs) |-> GroupedDict(ind, dep, rs[k], join_str)],
                       GroupedColumns)
    ELSE SelectColumns([k \in 1..Len(rs) |-> FlagDict(ind, dep, rs[k])],
                       FlagColumns(ind, dep))

(***************************************************************************)
(* run() and results_data() as actions                                     *)
(***************************************************************************)
\* the state after __init__: set_values has emptied _results
ExpInit ==
    /\ independent \in Independents
    /\ dependent \in Dependents
    /\ survey_data \in SurveyDatas(independent, dependent)
    /\ exp_results = <<>>
    /\ iterator = <<>>
    /\ iter_index = 0
    /\ exp_pc = "init"
    /\ report = [called |-> FALSE]
    /\ runs = 0
    /\ lookup = [called |-> FALSE]
    /\ GroupIdle
    /\ GPIdle
    /\ CCIdle
    /\ SigIdle
    /\ PruneIdle

\* a mutant of RunIterator: the dependent partitions are the outer loop
RunIteratorDependentOuter(ind, dep) ==
    LET swapped == product(group_pairs(dep, dep.ordered), group_pairs(ind, ind.ordered))
    IN  [k \in 1..Len(swapped) |-> <<swapped[k][2], swapped[k][1]>>]

\* the list the loop of run() iterates over
RunIterator(ind, dep) ==
    product(group_pairs(ind, ind.ordered), group_pairs(dep, dep.ordered))

\* a mutant of EmptyResults: run() goes on from the results it finds
KeepResults(rs) == rs

\* self._results = []
EmptyResults(rs) == <<>>

\* run(), called once: _results emptied and the iterator built
RunStart ==
    /\ exp_pc = "init"
    /\ exp_results' = EmptyResults(exp_results)
    /\ iterator' = RunIterator(independent, dependent)
    /\ iter_index' = 1
    /\ exp_pc' = "run"
    /\ UNCHANGED <<survey_data, independent, dependent, report,
                   gp_vars, cc_vars, sig_vars, prune_vars, use_vars>>

\* a mutant of RunResult: the control side counts the complementary answers
RunResultControlComplement(sd, ind, dep, combination) ==
    LET answers_ind_exp == combination[1][1]
        answers_ind_ctl == combination[1][2]
        answers_dep_exp == combination[2][1]
        answers_dep_ctl == combination[2][2]
        dists == calculate(sd, ind, dep, answers_ind_exp, answers_dep_exp,
                           answers_ind_ctl, answers_dep_ctl)
    IN  ExperimentResult(
            RespondentGroup((ind.name :> answers_ind_ctl), (dep.name :> answers_dep_ctl)),
            RespondentGroup((ind.name :> answers_ind_exp), (dep.name :> answers_dep_exp)),
            dists[1], dists[2])

\* the result run() builds for one combination
RunResult(sd, ind, dep, combination) ==
    LET answers_ind_exp == combination[1][1]
        answers_ind_ctl == combination[1][2]
        answers_dep_exp == combination[2][1]
        dists == calculate(sd, ind, dep, answers_ind_exp, answers_dep_exp,
                           answers_ind_ctl, answers_dep_exp)
    IN  ExperimentResult(
            RespondentGroup((ind.name :> answers_ind_ctl), (dep.name :> answers_dep_exp)),
            RespondentGroup((ind.name :> answers_ind_exp), (dep.name :> answers_dep_exp)),
            dists[1], dists[2])

\* a mutant of AppendResult: the new result goes to the front of the list
InsertResultFirst(rs, r) == <<r>> \o rs

\* self._results.append(result)
AppendResult(rs, r) == Append(rs, r)

\* one pass of the loop of run()
RunStep ==
    /\ exp_pc = "run"
    /\ iter_index <= Len(iterator)
    /\ exp_results' = AppendResult(exp_results,
            RunResult(survey_data, independent, dependent, iterator[iter_index]))
    /\ iter_index' = iter_index + 1
    /\ UNCHANGED <<survey_data, independent, dependent, iterator, exp_pc, report,
                   gp_vars, cc_vars, sig_vars, prune_vars, use_vars>>

\* run() returns
RunReturn ==
    /\ exp_pc = "run"
    /\ iter_index > Len(iterator)
    /\ exp_pc' = "ran"
    /\ UNCHANGED <<survey_data, independent, dependent, exp_results, iterator,
                   iter_index, report, gp_vars, cc_vars, sig_vars, prune_vars, use_vars>>

\* results_data(group_values) on the results of run()
CallResultsData ==
    /\ exp_pc = "ran"
    /\ \E group_values \in BOOLEAN :
          report' = [called |-> TRUE, group_values |-> group_values,
                     value |-> results_data(independent, dependent, exp_results,
                                            group_values, " || ")]
    /\ UNCHANGED <<survey_data, independent, dependent, exp_results, iterator,
                   iter_index, exp_pc, gp_vars, cc_vars, sig_vars, prune_vars, use_vars>>

ExpNext == RunStart \/ RunStep \/ RunReturn \/ CallResultsData

SpecExp == ExpInit /\ [][ExpNext]_vars

(***************************************************************************)
(* run() called again, and Experiment.result()                             *)
(***************************************************************************)
\* most calls of run() after the first
MaxReruns == 1

\* run() called again on the experiment, before any look-up: _results is
\* emptied and the iterator built anew
RunAgain ==
    /\ exp_pc = "ran"
    /\ runs < MaxReruns
    /\ ~lookup.called
    /\ runs' = runs + 1
    /\ exp_results' = EmptyResults(exp_results)
    /\ iterator' = RunIterator(independent, dependent)
    /\ iter_index' = 1
    /\ exp_pc' = "run"
    /\ UNCHANGED <<survey_data, independent, dependent, report, lookup,
                   group_vars, gp_vars, cc_vars, sig_vars, prune_vars>>

\* RespondentGroup.__eq__: the two dicts of each group compared, and with
\* them their lists of labels, element by element
RespondentGroupEq(self, other) ==
    /\ self.response_values = other.response_values
    /\ self.respondent_values = other.respondent_values

\* Experiment.result: the first result of both groups, or None
RECURSIVE ResultFrom(_, _, _, _)
ResultFrom(rs, k, ctl_group, exp_group) ==
    IF k > Len(rs) THEN None
    ELSE IF /\ RespondentGroupEq(rs[k].ctl_group, ctl_group)
            /\ RespondentGroupEq(rs[k].exp_group, exp_group)
         THEN Some(rs[k])
         ELSE ResultFrom(rs, k + 1, ctl_group, exp_group)

Experiment_result(rs, ctl_group, exp_group) == ResultFrom(rs, 1, ctl_group, exp_group)

Reverse(list) == [k \in 1..Len(list) |-> list[Len(list) + 1 - k]]

\* the definition of a group with its labels listed as they are, or listed
\* backwards
Relisted(group, backwards) ==
    IF backwards
    THEN RespondentGroup(
            [n \in DOMAIN group.respondent_values |-> Reverse(group.respondent_values[n])],
            [n \in DOMAIN group.response_values |-> Reverse(group.response_values[n])])
    ELSE group

\* result(ctl_group, exp_group) after run(), for the groups of a stored
\* result in either listing
CallResult ==
    /\ exp_pc = "ran"
    /\ ~lookup.called
    /\ \E k \in 1..Len(exp_results), ctl_backwards \in BOOLEAN, exp_backwards \in BOOLEAN :
          LET ctl_group == Relisted(exp_results[k].ctl_group, ctl_backwards)
              exp_group == Relisted(exp_results[k].exp_group, exp_backwards)
          IN  lookup' = [called |-> TRUE, ctl_group |-> ctl_group,
                         exp_group |-> exp_group,
                         value |-> Experiment_result(exp_results, ctl_group, exp_group)]
    /\ UNCHANGED <<survey_data, independent, dependent, exp_results, iterator,
                   iter_index, exp_pc, report, runs,
                   group_vars, gp_vars, cc_vars, sig_vars, prune_vars>>

\* an experiment that is run, and run again
SessionNext == RunStart \/ RunStep \/ RunReturn \/ RunAgain

SpecSession == ExpInit /\ [][SessionNext]_vars

\* an experiment that is run, and asked for one of its results
LookupNext == RunStart \/ RunStep \/ RunReturn \/ CallResult

SpecLookup == ExpInit /\ [][LookupNext]_vars

(***************************************************************************)
(* Every belief of the engine: the significance methods and calculate      *)
(***************************************************************************)
BeliefsInit == SigInit \/ ExpInit

BeliefsNext == SigNext \/ ExpNext

SpecBeliefs == BeliefsInit /\ [][BeliefsNext]_vars

\* 0 <= k <= n for an integer count k
CountInRange(k, n) == 0 <= k /\ k <= n

\* 0 <= k <= n for a float k; false for NaN
CellInRange(k, n) == k.den > 0 /\ 0 <= k.num /\ k.num <= n * k.den

\* the beliefs built so far by a significance method have 0 <= k <= n
SignificanceBeliefsInRange ==
    (sig_pc # Idle) =>
        \A j \in 1..Len(results) :
            /\ CountInRange(results[j].p.left.k, results[j].p.left.n)
            /\ IF sig_pc \in {"any_loop", "any_done"}
               THEN CellInRange(results[j].p.right.k, results[j].p.right.n)
               ELSE CountInRange(results[j].p.right.k, results[j].p.right.n)

\* the beliefs calculate has built so far have 0 <= k <= n
ExperimentBeliefsInRange ==
    (exp_pc # Idle) =>
        \A j \in 1..Len(exp_results) :
            /\ CountInRange(exp_results[j].exp_dist.k, exp_results[j].exp_dist.n)
            /\ CountInRange(exp_results[j].ctl_dist.k, exp_results[j].ctl_dist.n)

\* C12: every (n, k) pair turned into a belief by significance_one_vs_all,
\* significance_one_vs_any, significance_one_vs_one and by the experiment's
\* calculate satisfies 0 <= k <= n, for any data, missing responses
\* included, so that 1 + k and 1 + (n - k) are both at least 1.
C12_SuccessesWithinTrials ==
    SignificanceBeliefsInRange /\ ExperimentBeliefsInRange

\* the same bound away from the one case that breaks it: a variable with a
\* single category handed to significance_one_vs_any
SuccessesWithinTrialsWithOthers ==
    /\ ExperimentBeliefsInRange
    /\ (sig_pc \in {"any_loop", "any_done"} /\ Len(categories) < 2)
          \/ SignificanceBeliefsInRange

(***************************************************************************)
(* Claims about run()                                                      *)
(***************************************************************************)
RunDone == exp_pc = "ran"

\* the group pairs of the two variables
IndPairs == group_pairs(independent, independent.ordered)
DepPairs == group_pairs(dependent, dependent.ordered)

\* the result of the a-th independent and the b-th of n_dep dependent
\* partitions when the independent partitions are the outer loop
ResultAt(n_dep, a, b) == exp_results[(a - 1) * n_dep + b]

ind_exp(result) == result.exp_group.respondent_values[independent.name]
ind_ctl(result) == result.ctl_group.respondent_values[independent.name]
dep_exp(result) == result.exp_group.response_values[dependent.name]

\* C13: after run() the results list holds exactly one result per element of
\* the product of the independent and the dependent group pairs, in nested
\* order, the independent partitions being the outer loop and the dependent
\* partitions the inner loop.
C13_ResultsInProductOrder ==
    RunDone =>
        LET ips == IndPairs
            dps == DepPairs
        IN  /\ Len(exp_results) = Len(ips) * Len(dps)
            /\ \A a \in 1..Len(ips), b \in 1..Len(dps) :
                  LET r == ResultAt(Len(dps), a, b)
                  IN  /\ ind_exp(r) = ips[a][1]
                      /\ ind_ctl(r) = ips[a][2]
                      /\ dep_exp(r) = dps[b][1]

C13_Witness ==
    /\ RunDone
    /\ Len(IndPairs) = 2
    /\ Len(DepPairs) = 6
    /\ Len(exp_results) = 12
    /\ ind_exp(exp_results[6]) = IndPairs[1][1]
    /\ ind_exp(exp_results[7]) = IndPairs[2][1]
    /\ dep_exp(exp_results[7]) = DepPairs[1][1]

\* the respondents who answered the dependent question and whose
\* independent value is in ind_values
Answering(ind_values) ==
    {j \in 1..Len(survey_data) :
        /\ survey_data[j][dependent.name] # NaN
        /\ survey_data[j][independent.name] \in Range(ind_values)}

\* the respondents whose independent value is in ind_values
Having(ind_values) ==
    {j \in 1..Len(survey_data) :
        survey_data[j][independent.name] \in Range(ind_values)}

\* those of the respondents R whose dependent value is in dep_values
Succeeding(R, dep_values) ==
    {j \in R : survey_data[j][dependent.name] \in Range(dep_values)}

\* C14 as first stated: n_exp is the number of respondents whose independent
\* value is in ind_exp and k_exp the number of those whose dependent value is
\* in dep_exp; n_ctl and k_ctl likewise from ind_ctl.
C14_TrialsAreAllOfTheGroup ==
    (exp_pc # Idle) =>
        \A j \in 1..Len(exp_results) :
            LET r == exp_results[j]
            IN  /\ r.exp_dist.n = Cardinality(Having(ind_exp(r)))
                /\ r.exp_dist.k = Cardinality(Succeeding(Having(ind_exp(r)), dep_exp(r)))
                /\ r.ctl_dist.n = Cardinality(Having(ind_ctl(r)))
                /\ r.ctl_dist.k = Cardinality(Succeeding(Having(ind_ctl(r)), dep_exp(r)))

\* C14: for every tested combination n_exp is the number of respondents who
\* answered the dependent question and whose independent value is in
\* ind_exp, and k_exp the number of those whose dependent value is in
\* dep_exp; n_ctl and k_ctl are obtained the same way from ind_ctl.
C14_TrialsAnsweredTheQuestion ==
    (exp_pc # Idle) =>
        \A j \in 1..Len(exp_results) :
            LET r == exp_results[j]
            IN  /\ r.exp_dist.n = Cardinality(Answering(ind_exp(r)))
                /\ r.exp_dist.k = Cardinality(Succeeding(Answering(ind_exp(r)), dep_exp(r)))
                /\ r.ctl_dist.n = Cardinality(Answering(ind_ctl(r)))
                /\ r.ctl_dist.k = Cardinality(Succeeding(Answering(ind_ctl(r)), dep_exp(r)))

C14_Witness ==
    /\ RunDone
    /\ Len(exp_results) > 0
    /\ Len(survey_data) = 2
    /\ Cardinality(Having(ind_exp(exp_results[1]))) = 2
    /\ exp_results[1].exp_dist.n = 1
    /\ exp_results[1].exp_dist.k = 1

\* C15: in every result the experimental and the control side count
\* successes with the same dependent values: the two groups have the same
\* response_values, their respondent_values are the two sides of one
\* independent partition, and both success counts are taken over dep_exp.
C15_SameDependentValues ==
    (exp_pc # Idle) =>
        LET partitions == Range(IndPairs)
        IN  \A j \in 1..Len(exp_results) :
                LET r == exp_results[j]
                IN  /\ r.exp_group.response_values = r.ctl_group.response_values
                    /\ <<ind_exp(r), ind_ctl(r)>> \in partitions
                    /\ r.exp_dist.k =
                          Cardinality(Succeeding(Answering(ind_exp(r)), dep_exp(r)))
                    /\ r.ctl_dist.k =
                          Cardinality(Succeeding(Answering(ind_ctl(r)), dep_exp(r)))

C15_Witness ==
    /\ RunDone
    /\ Len(exp_results) > 0
    /\ exp_results[1].ctl_dist.n = 1
    /\ exp_results[1].ctl_dist.k = 1
    /\ exp_results[1].exp_dist.n = 1
    /\ exp_results[1].exp_dist.k = 0
    /\ exp_results[1].ctl_group.response_values = (dependent.name :> dep_exp(exp_results[1]))

(***************************************************************************)
(* Claims about results_data                                               *)
(***************************************************************************)
\* results_data(group_values=True) has returned
GroupedReported ==
    RunDone /\ report.called /\ report.group_values

\* the grouped row that describes a result
DescribesResult(row, r) ==
    /\ row[<<independent.names, "_exp">>] = Join(" || ", ind_exp(r))
    /\ row[<<independent.names, "_ctl">>] = Join(" || ", ind_ctl(r))
    /\ row[<<dependent.names, "_exp">>] = Join(" || ", dep_exp(r))
    /\ row[<<"p_superior">>] = PosteriorGreater(r.exp_dist, r.ctl_dist)
    /\ row[<<"exp_mean">>] = Div(Num(1 + r.exp_dist.k), Num(2 + r.exp_dist.n))
    /\ row[<<"ctl_mean">>] = Div(Num(1 + r.ctl_dist.k), Num(2 + r.ctl_dist.n))
    /\ row[<<"effect_mean">>] = Sub(row[<<"exp_mean">>], row[<<"ctl_mean">>])

\* C16: after run(), results_data(group_values=True) returns a flat table
\* with exactly one row per result, in result order, holding the joined
\* labels of the experimental and control groups, p_superior, effect_mean
\* (exp_mean minus ctl_mean), exp_mean and ctl_mean, both for an
\* AttributeToQuestionExperiment and for a QuestionToQuestionExperiment.
C16_GroupedReportRows ==
    GroupedReported =>
        /\ report.value.kind = "frame"
        /\ Len(report.value.rows) = Len(exp_results)
        /\ \A k \in 1..Len(exp_results) :
              DescribesResult(report.value.rows[k], exp_results[k])

\* what does hold: with an independent question and at least one result the
\* table is as described
GroupedReportRowsOfQuestions ==
    (GroupedReported /\ independent.names = "ind_answers" /\ Len(exp_results) > 0) =>
        /\ report.value.kind = "frame"
        /\ Len(report.value.rows) = Len(exp_results)
        /\ \A k \in 1..Len(exp_results) :
              DescribesResult(report.value.rows[k], exp_results[k])

\* and with an independent attribute the call raises KeyError
GroupedReportOfAttributeRaises ==
    (GroupedReported /\ independent.names = "ind_attr_vals") =>
        report.value = Raise("KeyError")

(***************************************************************************)
(* prune_results and match_all                                             *)
(***************************************************************************)
\* most rows of the report handed to prune_results
MaxReportRows == 2

\* attribute.categories and question.category_names: the boolean columns
AttributeCategories == <<"Female", "Male">>
Answers == <<"no", "yes">>

\* the values of the p_superior column, as ranks
PSuperiors == {1, 2}

\* the rows a report can hold: a flag per attribute value and per answer,
\* and p_superior
ReportRows ==
    {attr @@ ans @@ ("p_superior" :> ps) :
        attr \in [Range(AttributeCategories) -> BOOLEAN],
        ans \in [Range(Answers) -> BOOLEAN],
        ps \in PSuperiors}

\* a DataFrame with a RangeIndex: the row of index label ix is rows[ix + 1]
Reports ==
    {[k \in 1..Len(rows) |-> [ix |-> k - 1, cols |-> rows[k]]] :
        rows \in SeqsUpTo(ReportRows, MaxReportRows)}

\* results.sort_values('p_superior', ascending=False): the rows by
\* descending p_superior, equal values in an order the sort chooses
SortedDescending(frame) ==
    {[k \in 1..Len(frame) |-> frame[perm[k]]] :
        perm \in {q \in [1..Len(frame) -> 1..Len(frame)] :
                    /\ \A a, b \in 1..Len(frame) : a # b => q[a] # q[b]
                    /\ \A a, b \in 1..Len(frame) :
                          a < b => frame[q[a]].cols["p_superior"] >=
                                   frame[q[b]].cols["p_superior"]}}

\* a mutant of match_all: exclude_ix is ignored
match_all_any_row(frame, match, exclude_ix) ==
    [ix \in {frame[k].ix : k \in 1..Len(frame)} |->
        LET row == CHOOSE r \in Range(frame) : r.ix = ix
        IN  \A key \in DOMAIN match : row.cols[key] = match[key]]

\* a mutant of match_all: exclude_ix is taken for a position in the frame
match_all_exclude_position(frame, match, exclude_ix) ==
    [ix \in {frame[k].ix : k \in 1..Len(frame)} |->
        LET row == CHOOSE r \in Range(frame) : r.ix = ix
        IN  /\ \A key \in DOMAIN match : row.cols[key] = match[key]
            /\ ~(exclude_ix + 1 <= Len(frame) /\ frame[exclude_ix + 1].ix = ix)]

\* match_all: per index label, whether every column of match has its value
match_all(frame, match, exclude_ix) ==
    [ix \in {frame[k].ix : k \in 1..Len(frame)} |->
        LET row == CHOOSE r \in Range(frame) : r.ix = ix
        IN  /\ \A key \in DOMAIN match : row.cols[key] = match[key]
            /\ ix # exclude_ix]

\* row[attribute.categories].to_dict()
used_values(row) == [c \in Range(AttributeCategories) |-> row.cols[c]]

\* row[answers].loc[row[answers] == True].to_dict()
used_answers(row) == [a \in {a \in Range(Answers) : row.cols[a] = TRUE} |-> TRUE]

PruneInit ==
    /\ pr_results \in Reports
    /\ pr_sorted = <<>>
    /\ ix_drop = <<>>
    /\ pr_index = 0
    /\ pr_pc = "start"
    /\ pr_return = <<>>
    /\ pr_first = [pruned |-> FALSE]
    /\ GPIdle
    /\ CCIdle
    /\ SigIdle
    /\ RunIdle
    /\ UseIdle

\* the sort and the all-False ix_drop
PruneSort ==
    /\ pr_pc = "start"
    /\ pr_sorted' \in SortedDescending(pr_results)
    /\ ix_drop' = [ix \in {pr_results[k].ix : k \in 1..Len(pr_results)} |-> FALSE]
    /\ pr_index' = 1
    /\ pr_pc' = "loop"
    /\ UNCHANGED <<pr_results, pr_return, pr_first, gp_vars, cc_vars, sig_vars, run_vars, use_vars>>

\* one pass of the loop over results.iterrows()
PruneStep ==
    /\ pr_pc = "loop"
    /\ pr_index <= Len(pr_sorted)
    /\ LET row == pr_sorted[pr_index]
           ix_same_resp_vals == match_all(pr_sorted, used_values(row), row.ix)
           ix_contains_answers == match_all(pr_sorted, used_answers(row), row.ix)
       IN  ix_drop' = [ix \in DOMAIN ix_drop |->
                         ix_drop[ix] \/ (ix_same_resp_vals[ix] /\ ix_contains_answers[ix])]
    /\ pr_index' = pr_index + 1
    /\ UNCHANGED <<pr_results, pr_sorted, pr_pc, pr_return, pr_first,
                   gp_vars, cc_vars, sig_vars, run_vars, use_vars>>

\* results.loc[~ix_drop]
PruneReturn ==
    /\ pr_pc = "loop"
    /\ pr_index > Len(pr_sorted)
    /\ LET Kept(row) == ~ix_drop[row.ix]
       IN  pr_return' = SelectSeq(pr_sorted, Kept)
    /\ pr_pc' = "done"
    /\ UNCHANGED <<pr_results, pr_sorted, ix_drop, pr_index, pr_first,
                   gp_vars, cc_vars, sig_vars, run_vars, use_vars>>

PruneNext == PruneSort \/ PruneStep \/ PruneReturn

SpecPrune == PruneInit /\ [][PruneNext]_vars

\* prune_results called on the report it has just returned
PruneAgain ==
    /\ pr_pc = "done"
    /\ ~pr_first.pruned
    /\ pr_first' = [pruned |-> TRUE, value |-> pr_return]
    /\ pr_results' = pr_return
    /\ pr_sorted' = <<>>
    /\ ix_drop' = <<>>
    /\ pr_index' = 0
    /\ pr_pc' = "start"
    /\ pr_return' = <<>>
    /\ UNCHANGED <<gp_vars, cc_vars, sig_vars, run_vars, use_vars>>

PruneTwiceNext == PruneNext \/ PruneAgain

SpecPruneTwice == PruneInit /\ [][PruneTwiceNext]_vars

(***************************************************************************)
(* Question groups: __init__ and __setitem__                               *)
(***************************************************************************)
\* most __setitem__ calls made on one group
MaxSetCalls == 3

\* the accessor keys; none of them is the name of a property of the group
GroupKeys == {"q_0", "q_1", "q_x"}

\* the classes of group: LikertQuestionGroup has a __setitem__ of its own,
\* MultiChoiceQuestionGroup has the one of SingleTypeQuestionContainerMixin
GroupClasses == {"LikertQuestionGroup", "MultiChoiceQuestionGroup"}

\* the class of question a group holds (Q)
QuestionClass(class) ==
    IF class = "LikertQuestionGroup" THEN "LikertQuestion" ELSE "MultiChoiceQuestion"

\* the question objects at hand
QuestionObjects ==
    {[type |-> t, name |-> n] :
        t \in {"LikertQuestion", "MultiChoiceQuestion"},
        n \in {"question_0", "question_x"}}
    \cup {[type |-> "CountQuestion", name |-> "count_question"]}

\* a dict, in insertion order: a list of (key, value) with distinct keys
DictKeys(d) == {d[k][1] : k \in 1..Len(d)}

DictValues(d) == [k \in 1..Len(d) |-> d[k][2]]

\* d[key] = value: the value of an existing key is replaced where it stands,
\* a new key goes to the end
DictSet(d, key, value) ==
    IF key \in DictKeys(d)
    THEN [k \in 1..Len(d) |-> IF d[k][1] = key THEN <<key, value>> ELSE d[k]]
    ELSE Append(d, <<key, value>>)

\* the dicts a group of the class is constructed from: one or two questions
\* of its class
QuestionDicts(class) ==
    {d \in UNION {[1..n -> {"q_0", "q_1"} \X QuestionObjects] : n \in 1..2} :
        /\ \A a, b \in 1..Len(d) : a # b => d[a][1] # d[b][1]
        /\ \A a \in 1..Len(d) : d[a][2].type = QuestionClass(class)}

\* __init__: _questions from the values of the dict, _item_dict the dict, and
\* an attribute per key
GroupInit ==
    /\ group_class \in GroupClasses
    /\ item_dict \in QuestionDicts(group_class)
    /\ questions = DictValues(item_dict)
    /\ attrs = [key \in DictKeys(item_dict) |->
                    (CHOOSE kv \in Range(item_dict) : kv[1] = key)[2]]
    /\ set_calls = 0
    /\ set_raised = FALSE
    /\ runs = Idle
    /\ lookup = Idle
    /\ GPIdle
    /\ CCIdle
    /\ SigIdle
    /\ RunIdle
    /\ PruneIdle

\* the body of both __setitem__ methods, after the type of value is known
SetItem(index, value, Q) ==
    IF value.type # Q
    THEN /\ set_raised' = TRUE
         /\ UNCHANGED <<item_dict, attrs, questions>>
    ELSE /\ item_dict' = DictSet(item_dict, index, value)
         /\ attrs' = (index :> value) @@ attrs
         /\ questions' = Append(questions, value)
         /\ set_raised' = FALSE

\* LikertQuestionGroup.__setitem__(index, value)
LikertSetItem ==
    /\ group_class = "LikertQuestionGroup"
    /\ set_calls < MaxSetCalls
    /\ \E index \in GroupKeys, value \in QuestionObjects :
          SetItem(index, value, "LikertQuestion")
    /\ set_calls' = set_calls + 1
    /\ UNCHANGED <<group_class, runs, lookup, gp_vars, cc_vars, sig_vars, run_vars,
                   prune_vars>>

\* SingleTypeQuestionContainerMixin.__setitem__(index, value)
ContainerSetItem ==
    /\ group_class # "LikertQuestionGroup"
    /\ set_calls < MaxSetCalls
    /\ \E index \in GroupKeys, value \in QuestionObjects :
          SetItem(index, value, QuestionClass(group_class))
    /\ set_calls' = set_calls + 1
    /\ UNCHANGED <<group_class, runs, lookup, gp_vars, cc_vars, sig_vars, run_vars,
                   prune_vars>>

GroupNext == LikertSetItem \/ ContainerSetItem

SpecGroup == GroupInit /\ [][GroupNext]_vars

(***************************************************************************)
(* Claims about prune_results                                              *)
(***************************************************************************)
PruneDone == pr_pc = "done"

\* the attribute values and the answers a report row is flagged with
Membership(row) == {c \in Range(AttributeCategories) : row.cols[c]}
SuccessSet(row) == {a \in Range(Answers) : row.cols[a]}

\* another row of the report has the same membership on the independent
\* side and a success set that contains this row's
Dominated(row) ==
    \E other \in Range(pr_results) :
        /\ other.ix # row.ix
        /\ Membership(other) = Membership(row)
        /\ SuccessSet(row) \subseteq SuccessSet(other)

\* another row of the report has the same membership on the independent
\* side and a success set that this row's contains
Dominating(row) ==
    \E other \in Range(pr_results) :
        /\ other.ix # row.ix
        /\ Membership(other) = Membership(row)
        /\ SuccessSet(other) \subseteq SuccessSet(row)

\* the rows returned are rows of the input, each at most once, unchanged
PureFilter ==
    /\ Range(pr_return) \subseteq Range(pr_results)
    /\ \A a, b \in 1..Len(pr_return) : a # b => pr_return[a].ix # pr_return[b].ix

\* C17 as first stated: prune_results drops a report row if and only if
\* another row has identical group membership on the independent side and a
\* dependent-success set that is a superset of this row's.
C17_DropsRowsWithSupersetElsewhere ==
    PruneDone =>
        /\ \A row \in Range(pr_results) :
              (row \notin Range(pr_return)) <=> Dominated(row)
        /\ PureFilter

\* C17: prune_results drops a report row if and only if another row of the
\* report has identical group membership on the independent side and a
\* dependent-success set that is a subset of this row's: the row with the
\* superset is the one dropped. The rows returned are rows of the input with
\* every value unchanged.
C17_DropsRowsWithSubsetElsewhere ==
    PruneDone =>
        /\ \A row \in Range(pr_results) :
              (row \notin Range(pr_return)) <=> Dominating(row)
        /\ PureFilter

C17_Witness ==
    /\ PruneDone
    /\ Len(pr_results) = 2
    /\ Len(pr_return) = 1
    /\ Membership(pr_results[1]) = {"Female"}
    /\ Membership(pr_results[2]) = {"Female"}
    /\ SuccessSet(pr_results[1]) = {"yes"}
    /\ SuccessSet(pr_results[2]) = {"no", "yes"}
    /\ pr_return[1] = pr_results[1]
    /\ pr_results[1].cols["p_superior"] < pr_results[2].cols["p_superior"]

(***************************************************************************)
(* Claims about the errors of the builders and of count_coincidences       *)
(***************************************************************************)
BuilderDone == cc_op \in {"create_cpt", "create_jpt", "create_jct"}

\* the error a builder raises for equal names
NameError == IF cc_op = "create_cpt" THEN Raise(SameNamesCpt) ELSE Raise(SameNamesJpt)

\* C18: create_cpt, create_jpt and create_jct each reject the call with an
\* error when the two variable names are equal, before any alignment or
\* counting: the error is the one about the names whatever the two streams
\* are, and it is raised for equal names only.
C18_BuildersRejectEqualNames ==
    BuilderDone => ((column_1 = column_2) <=> (cc_result = NameError))

C18_Witness ==
    /\ cc_op = "create_jct"
    /\ column_1 = column_2
    /\ data_1.name = NoName
    /\ cc_result = Raise(SameNamesJpt)

\* the conditions under which count_coincidences refuses two Series
SameStreamName == data_1.name = data_2.name

Unnamed(d) == d.name = NoName \/ \E k \in 1..Len(d.index_names) : d.index_names[k] = NoName

IsStacked(d) == Len(d.index_names) > 1

SimpleKeysDiffer ==
    ~IsStacked(data_1) /\ ~IsStacked(data_2) /\ data_1.index_names # data_2.index_names

SimpleKeyNotInStacked ==
    \/ ~IsStacked(data_1) /\ IsStacked(data_2)
          /\ data_1.index_names[1] \notin Range(data_2.index_names)
    \/ IsStacked(data_1) /\ ~IsStacked(data_2)
          /\ data_2.index_names[1] \notin Range(data_1.index_names)

StackedNamesDiffer ==
    IsStacked(data_1) /\ IsStacked(data_2)
        /\ Range(data_1.index_names) # Range(data_2.index_names)

Counted == cc_op = "count_coincidences"

\* C19 as first stated: count_coincidences fails when both streams have the
\* same name, when a stream or one of its key levels is unnamed, when two
\* simple streams have different key names, or when a simple stream's key
\* name is not one of the stacked stream's level names, and in every other
\* case validation passes.
C19_FourRefusals ==
    Counted =>
        ((cc_result.kind = "error") <=>
            \/ SameStreamName
            \/ Unnamed(data_1) \/ Unnamed(data_2)
            \/ SimpleKeysDiffer
            \/ SimpleKeyNotInStacked)

\* C19: count_coincidences fails with an error, before any tallying, when
\* both streams have the same name, when a stream or one of its key levels
\* is unnamed, when two simple streams have different key names, when a
\* simple stream's key name is not one of the stacked stream's level names,
\* or when two stacked streams have different sets of level names; in every
\* other case validation passes and a table is returned.
C19_FiveRefusals ==
    Counted =>
        /\ (cc_result.kind = "error") <=>
              \/ SameStreamName
              \/ Unnamed(data_1) \/ Unnamed(data_2)
              \/ SimpleKeysDiffer
              \/ SimpleKeyNotInStacked
              \/ StackedNamesDiffer
        /\ (cc_result.kind = "error") => cc_result = Raise("ValueError")

C19_Witness ==
    /\ Counted
    /\ ~SameStreamName
    /\ ~IsStacked(data_1) /\ ~IsStacked(data_2)
    /\ data_1.index_names = <<NoName>>
    /\ data_2.index_names = <<NoName>>
    /\ data_1.name # NoName /\ data_2.name # NoName
    /\ cc_result = Raise("ValueError")

\* count_coincidences refuses the two streams
Refused ==
    \/ SameStreamName
    \/ Unnamed(data_1) \/ Unnamed(data_2)
    \/ SimpleKeysDiffer
    \/ SimpleKeyNotInStacked
    \/ StackedNamesDiffer

\* the keys of d once aligned with other: the subject alone when d is
\* stacked and other is simple, the whole key otherwise
KeysAfterAlignment(d, other) ==
    IF IsStacked(d) /\ ~IsStacked(other)
    THEN {<<row.id[1]>> : row \in d.rows}
    ELSE {row.id : row \in d.rows}

NoSharedKey ==
    KeysAfterAlignment(data_1, data_2) \cap KeysAfterAlignment(data_2, data_1) = {}

\* C20: when the two validated streams share no key after alignment,
\* count_coincidences does not fail: it returns the table with rows
\* column_2_order and columns column_1_order in which every cell is 0.
C20_EmptyIntersectionAllZero ==
    (Counted /\ ~Refused /\ NoSharedKey) =>
        /\ ShapedByOrders(cc_result)
        /\ \A rc \in Range(column_2_order) \X Range(column_1_order) :
              cc_result.cell[rc] = Num(0)

C20_Witness ==
    /\ Counted /\ ~Refused /\ NoSharedKey
    /\ IsStacked(data_1) /\ ~IsStacked(data_2)
    /\ \E row \in data_1.rows : row.val = "Male"
    /\ \E row \in data_2.rows : row.val = "cough"
    /\ column_2_order = <<"cough", "fever">>
    /\ cc_result.kind = "table"
    /\ cc_result.cell[<<"cough", "Male">>] = Num(0)

(***************************************************************************)
(* Claims about the errors of get_group_pairs                              *)
(***************************************************************************)
\* the call has left its first statements: it is looping or has returned
GPRunning == gp_pc \in {"loop", "done"}

\* C21: an ordered partition (ordered=True) of fewer than 2 labels raises a
\* configuration error immediately: such a call never gets to enumerate
\* patterns, and never returns a list of pairs.
C21_OrderedFewLabelsRaise ==
    (ordered /\ Len(items) < 2) => ~GPRunning

(***************************************************************************)
(* Claims about count_coincidences on indicator tables                     *)
(***************************************************************************)
\* a row of stream d holds the label v of the column order: an indicator
\* table holds the choice v where its column v is 1
Holds(d, row, v) ==
    IF IsFrame(d) THEN v \in Range(d.columns) /\ row.val[v] = One ELSE row.val = v

\* the key two rows are aligned on: the subject, the only key level the
\* streams share when one of them is an indicator table
SameAlignedKey(a, b) == a.id[1] = b.id[1]

\* the aligned keys at which data_1 holds c1 and data_2 holds c2
IndicatorTally(c1, c2) ==
    Cardinality({p \in data_1.rows \X data_2.rows :
                    /\ SameAlignedKey(p[1], p[2])
                    /\ Holds(data_1, p[1], c1)
                    /\ Holds(data_2, p[2], c2)})

\* C22: with an indicator table for a stream, each indicator column is
\* tallied on its own against the other stream: the cell of (column c, label
\* v of the other stream) is the number of aligned keys where c is 1 and the
\* other stream has v, and with two indicator tables the cell (c2, c1) is the
\* number of aligned keys where both indicators are 1.
C22_IndicatorColumnsTallied ==
    (CountDone /\ (IsFrame(data_1) \/ IsFrame(data_2)) /\ cc_result.kind = "table") =>
        \A rc \in DOMAIN cc_result.cell :
            cc_result.cell[rc] = Num(IndicatorTally(rc[2], rc[1]))

\* two indicator tables that share the choice "fever"; subject 1 ticked
\* "fever" in both, and "cough" in the first only
C22_Witness ==
    /\ CountDone
    /\ IsFrame(data_1) /\ IsFrame(data_2)
    /\ cc_result.kind = "table"
    /\ column_1_order = Choices1 /\ column_2_order = Choices2
    /\ cc_result.cell[<<"fever", "fever">>] = Num(1)
    /\ cc_result.cell[<<"fever", "cough">>] = Num(1)
    /\ cc_result.cell[<<"rash", "cough">>] = Num(0)
    /\ \E r \in data_1.rows : r.val["cough"] = Zero

(***************************************************************************)
(* Claims about Experiment.result                                          *)
(***************************************************************************)
\* two group definitions with the same labels on each side
SameContent(g, h) ==
    /\ DOMAIN g.respondent_values = DOMAIN h.respondent_values
    /\ DOMAIN g.response_values = DOMAIN h.response_values
    /\ \A n \in DOMAIN g.respondent_values :
          Range(g.respondent_values[n]) = Range(h.respondent_values[n])
    /\ \A n \in DOMAIN g.response_values :
          Range(g.response_values[n]) = Range(h.response_values[n])

\* C23: group identity is by content, not by listing order: result(ctl_group,
\* exp_group) returns the stored result whose groups hold the same labels on
\* each side, in whatever order the definitions list them.
C23_LookupByContent ==
    lookup.called =>
        \A k \in 1..Len(exp_results) :
            (/\ SameContent(exp_results[k].ctl_group, lookup.ctl_group)
             /\ SameContent(exp_results[k].exp_group, lookup.exp_group))
                => lookup.value = Some(exp_results[k])

\* the same look-up with the labels listed as run() lists them
LookupAsListed ==
    lookup.called =>
        \A k \in 1..Len(exp_results) :
            (/\ exp_results[k].ctl_group = lookup.ctl_group
             /\ exp_results[k].exp_group = lookup.exp_group)
                => lookup.value = Some(exp_results[k])

(***************************************************************************)
(* Claims about a run() that is interrupted                                *)
(***************************************************************************)
\* the list a completed run() over the same data produces
CompletedRun ==
    LET it == RunIterator(independent, dependent)
    IN  [k \in 1..Len(it) |-> RunResult(survey_data, independent, dependent, it[k])]

IsPrefix(s, t) == Len(s) <= Len(t) /\ SubSeq(t, 1, Len(s)) = s

\* during run() the results list is a prefix of the list of a completed run
PartialIsPrefix ==
    exp_pc \in {"run", "ran"} => IsPrefix(exp_results, CompletedRun)

\* an iteration leaves the entries appended before it as they were
KeepsEntries == exp_pc = "run" => IsPrefix(exp_results, exp_results')

\* C24: interrupted between two iterations, run() leaves valid results: at
\* every point during run() the results list is a prefix of the list of a
\* completed run, and an entry once appended is not changed by a later
\* iteration.
C24_PartialResultsArePrefix == []PartialIsPrefix /\ [][KeepsEntries]_vars

\* run() between two iterations: some results are stored and some are to come
C24_Witness ==
    /\ exp_pc = "run"
    /\ Len(exp_results) >= 2
    /\ Len(exp_results) < Len(iterator)
    /\ exp_results[1] # exp_results[2]

C27_RerunReplacesResults ==
    exp_pc = "ran" => exp_results = CompletedRun

\* a second run() has returned, over data that give several results
C27_Witness ==
    /\ exp_pc = "ran"
    /\ runs >= 1
    /\ Len(exp_results) >= 4
    /\ Len(exp_results) = Len(iterator)
    /\ Len(survey_data) >= 1

(***************************************************************************)
(* Claims about the symmetry of the results of run()                       *)
(***************************************************************************)
\* result b is the mirror of result a: the independent groups swapped, the
\* same dependent success set
MirrorOf(a, b) ==
    /\ ind_exp(b) = ind_ctl(a)
    /\ ind_ctl(b) = ind_exp(a)
    /\ dep_exp(b) = dep_exp(a)

\* the (n, k) of the two sides swapped
CountsSwapped(a, b) ==
    /\ b.exp_dist.n = a.ctl_dist.n /\ b.exp_dist.k = a.ctl_dist.k
    /\ b.ctl_dist.n = a.exp_dist.n /\ b.ctl_dist.k = a.exp_dist.k

PrunedTwice == pr_pc = "done" /\ pr_first.pruned

\* C29: prune_results is idempotent: applied to its own output it removes no
\* further row and returns the same set of rows.
C29_PruneIdempotent ==
    PrunedTwice => Range(pr_return) = Range(pr_first.value)

\* the first call dropped the row of label 0 and kept the row of label 1,
\* which the second call returns again
C29_Witness ==
    /\ PrunedTwice
    /\ Len(pr_first.value) = 1
    /\ pr_first.value[1].ix = 1
    /\ Len(pr_return) = 1

(***************************************************************************)
(* Claims about the question groups                                        *)
(***************************************************************************)
\* how often the question q stands in the list s
Occurrences(s, q) == Cardinality({k \in 1..Len(s) : s[k] = q})

\* the list holds one entry per key, the question the key maps to
ListMatchesDict ==
    /\ Len(questions) = Len(item_dict)
    /\ \A q \in QuestionObjects :
          Occurrences(questions, q) = Occurrences(DictValues(item_dict), q)

\* a call rejected with TypeError changes neither the list nor the dict
RejectedChangesNothing ==
    (set_calls' # set_calls /\ set_raised') =>
        (questions' = questions /\ item_dict' = item_dict)

\* C30: after any sequence of __setitem__ calls on a question group (a key
\* assigned again and calls rejected with TypeError among them) the question
\* list and the key-to-question dictionary are consistent: the list holds
\* exactly one entry per key, the question the key now maps to, and a rejected
\* call changes neither.
C30_ListAndDictConsistent == []ListMatchesDict /\ [][RejectedChangesNothing]_vars

\* as long as every accepted call sets a key the group did not have, the list
\* and the dictionary agree
NewKeysKeepConsistent ==
    Len(item_dict) = Len(questions) => ListMatchesDict

\* a rejected call changes nothing
RejectedCallsChangeNothing == [][RejectedChangesNothing]_vars

====
